---- MODULE Spec2Model ----
(***************************************************************************)
(* NoticeForge core (noticeforge_best.py): the driver process_folder with  *)
(* its content-addressed cache (00_manifest.json), the per-file pipeline   *)
(* and cooperative cancellation, modelled as a state machine.              *)
(*                                                                         *)
(* Abstractions.  A text is a record of the counts the code computes from  *)
(* it (characters, lines, Japanese characters, garbage lines, ...) and of  *)
(* the phrases its regular expressions look for.  A file is a record of    *)
(* its extension, folder, size, byte content (whose SHA-1 is the content   *)
(* id) and what the extraction libraries find in those bytes.  Japanese    *)
(* string constants are written in ASCII: "Law" = 法令, "Notice" = 通知,   *)
(* "Manual" = マニュアル, "FDMA" = 消防庁.  The output folder is assumed   *)
(* writable.                                                               *)
(***************************************************************************)
EXTENDS Integers, Sequences, FiniteSets, TLC

\* ------------------------------------------------------------------ bounds
MaxFiles == 3
MaxDepth == 3          \* components of a relative path, the file name included
MaxBundleRecs == 3     \* records handed to write_binded_texts on its own
MaxOriginals == 6      \* records handed to copy_source_files_batched on its own
MaxLines == 3          \* lines of a text handed to a title guesser on its own
MaxBudget == 300       \* the largest budget n handed to a summary function on its own
MaxWorkers == 2        \* worker threads of the window that the model lets exist at once

\* ------------------------------------------------------- program constants
CACHE_VERSION == 5
OcrTriggerManual == 50
OcrTriggerAuto == 10
OcrReplaceBelow == 10
MinTextLen == 30
ShortTextLen == 100
BigFileSize == 30000
OcrReviewBelow == 35
AvgLineCap == 25
LawArticleHits == 5
MAX_FILE_BYTES == 52428800
MAX_BATCH_BYTES == 262144000
NotebookSlots == 50
PreambleSlots == 1
OcrSummaryBelow == 25
PlaceholderLen == 41
IntentCap == 200

\* -------------------------------------------------------------- texts
\* date: the first date expression of the text: "none", "greg" (a western
\* date such as 2023年3月1日, ymd its YYYYMMDD), "era" (令和5年3月1日),
\* "era_conv" (令和5年（2023年）3月1日, after convert_japanese_year)
EmptyBody ==
  [chars |-> 0, lines |-> 0, jp |-> 0, garbage |-> 0, meaningful |-> 0,
   articles |-> 0, notify |-> FALSE, date |-> "none", ymd |-> 0, issuers |-> {},
   cutLine |-> 0, cutChars |-> 0]

NoticeBody ==
  [chars |-> 500, lines |-> 20, jp |-> 450, garbage |-> 0, meaningful |-> 10,
   articles |-> 0, notify |-> TRUE, date |-> "greg", ymd |-> 20230301, issuers |-> {"FDMA"},
   cutLine |-> 12, cutChars |-> 300]

LawBody ==
  [chars |-> 800, lines |-> 30, jp |-> 700, garbage |-> 0, meaningful |-> 12,
   articles |-> 6, notify |-> FALSE, date |-> "era", ymd |-> 20190501, issuers |-> {},
   cutLine |-> 0, cutChars |-> 0]

GoodOcrBody ==
  [chars |-> 400, lines |-> 16, jp |-> 360, garbage |-> 1, meaningful |-> 6,
   articles |-> 0, notify |-> TRUE, date |-> "greg", ymd |-> 20200401, issuers |-> {"FireDept", "PreventionDiv"},
   cutLine |-> 0, cutChars |-> 0]

GarbageOcrBody ==
  [chars |-> 60, lines |-> 12, jp |-> 3, garbage |-> 10, meaningful |-> 0,
   articles |-> 0, notify |-> FALSE, date |-> "none", ymd |-> 0, issuers |-> {},
   cutLine |-> 0, cutChars |-> 0]

ShortBody ==
  [chars |-> 40, lines |-> 2, jp |-> 36, garbage |-> 0, meaningful |-> 1,
   articles |-> 0, notify |-> FALSE, date |-> "none", ymd |-> 0, issuers |-> {},
   cutLine |-> 0, cutChars |-> 0]

\* a page with five characters of embedded text
TinyBody ==
  [chars |-> 5, lines |-> 1, jp |-> 5, garbage |-> 0, meaningful |-> 0,
   articles |-> 0, notify |-> FALSE, date |-> "none", ymd |-> 0, issuers |-> {},
   cutLine |-> 0, cutChars |-> 0]

\* len(text): the characters of the lines plus the newlines between them
TextLen(b) == IF b.lines = 0 THEN 0 ELSE b.chars + b.lines - 1

\* page_text + "\n" + ocr_text
Concat(a, b) ==
  IF a.lines = 0 THEN b
  ELSE IF b.lines = 0 THEN a
  ELSE [chars |-> a.chars + b.chars, lines |-> a.lines + b.lines,
        jp |-> a.jp + b.jp, garbage |-> a.garbage + b.garbage,
        meaningful |-> a.meaningful + b.meaningful,
        articles |-> a.articles + b.articles,
        notify |-> a.notify \/ b.notify,
        date |-> IF a.date # "none" THEN a.date ELSE b.date,
        ymd |-> IF a.date # "none" THEN a.ymd ELSE b.ymd,
        issuers |-> a.issuers \cup b.issuers,
        cutLine |-> a.cutLine, cutChars |-> a.cutChars]

\* ------------------------------------------------------------ environment
\* the optional imports of the module (fitz, docx, openpyxl, pytesseract)
\* and the DocuWorks command line tool
Envs ==
  { [fitz |-> TRUE, docx |-> TRUE, openpyxl |-> TRUE, xdwtool |-> TRUE, tesseract |-> TRUE],
    [fitz |-> TRUE, docx |-> TRUE, openpyxl |-> TRUE, xdwtool |-> TRUE, tesseract |-> FALSE],
    [fitz |-> FALSE, docx |-> FALSE, openpyxl |-> FALSE, xdwtool |-> FALSE, tesseract |-> FALSE] }

\* ------------------------------------------------------------------ files
\* content: the bytes (0 is never a content id); readable: open() succeeds;
\* corrupt: the format library fails on the bytes; native: the embedded
\* text; ocr: what Tesseract recognizes on the page image
MkFile(ext, folder, size, content, readable, corrupt, native, ocr) ==
  [ext |-> ext, folder |-> folder, size |-> size, content |-> content,
   readable |-> readable, corrupt |-> corrupt, native |-> native, ocr |-> ocr]

FileUniverse ==
  << MkFile(".txt", "", 2000, 1, TRUE, FALSE, NoticeBody, EmptyBody),
     MkFile(".txt", "", 2000, 1, TRUE, FALSE, NoticeBody, EmptyBody),
     MkFile(".txt", "", 2000, 1, FALSE, FALSE, NoticeBody, EmptyBody),
     MkFile(".pdf", "", 50000, 2, TRUE, FALSE, EmptyBody, GoodOcrBody),
     MkFile(".pdf", "", 50000, 3, TRUE, FALSE, ShortBody, GarbageOcrBody),
     MkFile(".xlsx", "", 9000, 4, TRUE, TRUE, EmptyBody, EmptyBody),
     MkFile(".docx", "manual", 7000, 5, TRUE, FALSE, LawBody, EmptyBody),
     MkFile(".xdw", "law", 4000, 6, TRUE, FALSE, EmptyBody, EmptyBody),
     MkFile(".jpg", "", 8000, 7, TRUE, FALSE, EmptyBody, EmptyBody) >>

\* os.walk visits the files in listing order: an input folder is a
\* selection of at most MaxFiles files of the universe, in its order (the
\* second file of the universe is a copy of the first, the third one that
\* cannot be opened)
InputFolders ==
  { s \in UNION { [1..n -> 1..Len(FileUniverse)] : n \in 1..MaxFiles } :
      \A k \in 1..(Len(s) - 1) : s[k] < s[k + 1] }

\* -------------------------------------------------------------- extractors
Extracted(text, pages, method) == [text |-> text, pages |-> pages, method |-> method]

\* one page; pages = 0 stands for None
extract_pdf(f, ocr_on, e) ==
  IF ~e.fitz THEN Extracted(EmptyBody, 0, "pymupdf_missing")
  ELSE IF ~f.readable \/ f.corrupt THEN Extracted(EmptyBody, 0, "pdf_err")
  ELSE LET ocr_trigger == IF ocr_on THEN OcrTriggerManual ELSE OcrTriggerAuto
       IN  IF TextLen(f.native) < ocr_trigger /\ e.tesseract /\ TextLen(f.ocr) > 0
           THEN Extracted(IF TextLen(f.native) < OcrReplaceBelow
                          THEN f.ocr ELSE Concat(f.native, f.ocr),
                          1, IF ocr_on THEN "pdf_ocr" ELSE "pdf_ocr_auto")
           ELSE Extracted(f.native, 1, "pdf_text")

\* how often pytesseract.image_to_string is called for the page (line 404)
ocr_attempts(f, ocr_on, e) ==
  IF e.fitz /\ f.readable /\ ~f.corrupt /\ e.tesseract
     /\ TextLen(f.native) < (IF ocr_on THEN OcrTriggerManual ELSE OcrTriggerAuto)
  THEN 1 ELSE 0

extract_docx(f, e) ==
  IF ~e.docx THEN Extracted(EmptyBody, 0, "docx_missing")
  ELSE IF ~f.readable \/ f.corrupt THEN Extracted(EmptyBody, 0, "docx_err")
  ELSE Extracted(f.native, 0, "docx_text")

extract_excel(f, e) ==
  IF ~e.openpyxl THEN Extracted(EmptyBody, 0, "excel_lib_missing")
  ELSE IF ~f.readable \/ f.corrupt THEN Extracted(EmptyBody, 0, "excel_err")
  ELSE Extracted(f.native, 0, "xlsx_md")

\* the fallback chain of tools, reduced to one tool that is present or not
extract_xdw(f, e) ==
  IF e.xdwtool /\ f.readable /\ ~f.corrupt
  THEN IF TextLen(f.native) > 0 THEN Extracted(f.native, 0, "xdw_text")
       ELSE Extracted(EmptyBody, 0, "xdw_empty_or_protected")
  ELSE Extracted(EmptyBody, 0, "xdw_text_extractor_missing")

extract_txt(f) ==
  IF ~f.readable THEN Extracted(EmptyBody, 0, "txt_err")
  ELSE Extracted(f.native, 0, "txt_read")

extract_csv(f) ==
  IF ~f.readable THEN Extracted(EmptyBody, 0, "csv_err")
  ELSE IF TextLen(f.native) = 0 THEN Extracted(EmptyBody, 0, "csv_empty")
  ELSE Extracted(f.native, 0, "csv_md")

\* the try block of process_folder: the dispatch on the extension; the
\* extractors catch their own exceptions, so the except branch
\* (method "error") is taken by none of them
Extract(f, ocr_on, e) ==
  CASE f.ext = ".pdf" -> extract_pdf(f, ocr_on, e)
    [] f.ext = ".docx" -> extract_docx(f, e)
    [] f.ext \in {".xlsx", ".xlsm", ".xls"} -> extract_excel(f, e)
    [] f.ext \in {".xdw", ".xbd"} -> extract_xdw(f, e)
    [] f.ext = ".txt" -> extract_txt(f)
    [] f.ext = ".csv" -> extract_csv(f)
    [] OTHER -> Extracted(EmptyBody, 0, "unhandled")

\* "ocr" in method / "missing" in method, over the vocabulary of tags
ContainsOcr(method) == method \in {"pdf_ocr", "pdf_ocr_auto"}
ContainsMissing(method) ==
  method \in {"pymupdf_missing", "docx_missing", "excel_lib_missing",
              "xdw_text_extractor_missing"}

\* ------------------------------------------------------------ heuristics
convert_japanese_year(t) ==
  IF t.date = "era" THEN [t EXCEPT !.date = "era_conv"] ELSE t

\* (main, attach): the cut is taken only at a line index above 5
split_main_attach(t) ==
  IF t.cutLine > 5
  THEN [main |-> t.cutChars, attach |-> TextLen(t) - t.cutChars - 1]
  ELSE [main |-> TextLen(t), attach |-> 0]

compute_ocr_quality(t) ==
  IF t.lines = 0 \/ t.chars = 0 THEN 0
  ELSE LET d == t.chars * t.lines * AvgLineCap
           lenpart == IF t.chars < AvgLineCap * t.lines
                      THEN t.chars * t.chars ELSE AvgLineCap * t.lines * t.chars
           num == 35 * t.jp * t.lines * AvgLineCap
                  + 25 * (t.lines - t.garbage) * t.chars * AvgLineCap
                  + 20 * t.meaningful * t.chars * AvgLineCap
                  + 20 * lenpart
       IN  (2 * num + d) \div (2 * d)

\* A relative path is the sequence of its components, the file name last.
\* A component is named by the vocabulary it contains: "law" (one of 法令,
\* 法律, 政令, 規則, ...), "manual" (one of マニュアル, 手順書, 要領, ...),
\* "law_manual" (of both), "docs" and "file" (of neither)
HasLawWord(c) == c \in {"law", "law_manual"}
HasManualWord(c) == c \in {"manual", "law_manual"}

\* rel_path.rsplit("/", 1)[0], and "" for a path without a folder
folder_path(rel_path) == SubSeq(rel_path, 1, Len(rel_path) - 1)

\* mutant: the vocabulary is searched in the whole path, the file name too
detect_doc_type_wholePath(rel_path, t) ==
  IF \E n \in 1..Len(rel_path) : HasLawWord(rel_path[n]) THEN "Law"
  ELSE IF \E n \in 1..Len(rel_path) : HasManualWord(rel_path[n]) THEN "Manual"
  ELSE IF t.articles >= LawArticleHits THEN (IF t.notify THEN "Notice" ELSE "Law")
  ELSE "Notice"

\* t.articles: the article markers in the first 10000 characters; t.notify:
\* a notify/request phrase in the first 3000 characters
detect_doc_type(rel_path, t) ==
  LET fp == folder_path(rel_path) IN
  IF \E n \in 1..Len(fp) : HasLawWord(fp[n]) THEN "Law"
  ELSE IF \E n \in 1..Len(fp) : HasManualWord(fp[n]) THEN "Manual"
  ELSE IF t.articles >= LawArticleHits THEN (IF t.notify THEN "Notice" ELSE "Law")
  ELSE "Notice"

\* the date expression found (kind "" when none): the era pattern needs 年
\* directly before the month, which the converted text no longer has, and
\* the western pattern needs 年 directly before the month as well
guess_date(t) ==
  CASE t.date = "era" -> [kind |-> "era", ymd |-> t.ymd]
    [] t.date = "greg" -> [kind |-> "greg", ymd |-> t.ymd]
    [] OTHER -> [kind |-> "", ymd |-> 0]

\* "99999999"; a string of digits is the sequence of its digits
NoDateKey == <<9, 9, 9, 9, 9, 9, 9, 9>>

\* m.group(1): the four digits the pattern matched as the year
Year4(y) == <<(y \div 1000) % 10, (y \div 100) % 10, (y \div 10) % 10, y % 10>>

\* mutant: the month and the day are written without the leading zero
Pad2_unpadded(n) == IF n < 10 THEN <<n>> ELSE <<n \div 10, n % 10>>

\* f"{int(m.group(2)):02d}" of the one or two digits matched: padded to two
Pad2(n) == IF n < 10 THEN <<0, n>> ELSE <<n \div 10, n % 10>>

\* the key of a western date is YYYYMMDD; an era date without （YYYY年）
\* and the empty string have the key "99999999"
date_to_sort_key(date_str) ==
  IF date_str.kind = "greg"
  THEN Year4(date_str.ymd \div 10000) \o Pad2((date_str.ymd \div 100) % 100)
         \o Pad2(date_str.ymd % 100)
  ELSE NoDateKey

\* the first of the known issuers that the text contains: 消防庁, 総務省消防庁,
\* 消防局, 危険物保安室, 予防課
IssuerCandidates == <<"FDMA", "MIC_FDMA", "FireDept", "HazmatOffice", "PreventionDiv">>
guess_issuer(t) ==
  LET found == { c \in 1..Len(IssuerCandidates) : IssuerCandidates[c] \in t.issuers }
  IN  IF found = {} THEN ""
      ELSE IssuerCandidates[CHOOSE c \in found : \A d \in found : c <= d]

\* ------------------------------------------------------------- titles
\* A string, as the title functions see it: its length, the classes of its
\* first three characters, whether it ends in a capital letter, whether it
\* matches one of _TITLE_ENDINGS (について, に関する件, の件, ...), how many
\* Japanese characters it has and how many pairs of a capital letter
\* directly before a Japanese character.  The character classes: "kanji"
\* (kana and kanji that are in neither list below), "particle" (の, は, が,
\* を, に, で, も, と: in both lists), "upper" (A-Z), "lower" (a-z), "sym"
\* (one of * # $ @ ! ? ...), "digit", "sep" (. or a space)
MkStr(len, head, lastUpper, ends, jp, frags) ==
  [len |-> len, head |-> head, lastUpper |-> lastUpper, ends |-> ends, jp |-> jp,
   frags |-> frags]
EmptyStr == MkStr(0, <<>>, FALSE, FALSE, 0, 0)

IsJP(c) == c \in {"kanji", "particle"}

\* a + b; no title ending and no run of capitals straddles the joint
JoinStr(a, b) ==
  IF a.len = 0 THEN b
  ELSE IF b.len = 0 THEN a
  ELSE LET h == a.head \o b.head IN
       MkStr(a.len + b.len, SubSeq(h, 1, IF Len(h) < 3 THEN Len(h) ELSE 3),
             b.lastUpper, b.ends, a.jp + b.jp,
             a.frags + b.frags + (IF a.lastUpper /\ IsJP(b.head[1]) THEN 1 ELSE 0))

\* _MID_SENTENCE_RE and _NUMBERED_ITEM_RE, on the first characters
MidSentence(s) == s.len > 0 /\ s.head[1] = "particle"
NumberedItem(s) == s.len > 1 /\ s.head[1] = "digit" /\ s.head[2] = "sep"

\* at least one Japanese character, and at least 15 % of them
is_meaningful_title(s) == s.len > 0 /\ s.jp > 0 /\ s.jp * 100 >= 15 * s.len

\* the four rejections of lines 714-738; with 10 characters or more the
\* string without its first character matches a title ending when the
\* string does
is_ocr_garbled_title(s) ==
  \/ s.len = 0
  \/ /\ s.len >= 2
     /\ s.head[1] \in {"upper", "lower", "sym"}
     /\ \/ IsJP(s.head[2])
        \/ s.len >= 3 /\ s.head[2] \in {"upper", "lower", "sym"} /\ IsJP(s.head[3])
  \/ /\ s.len >= 10
     /\ IsJP(s.head[1]) /\ IsJP(s.head[2])
     /\ s.head[1] # "particle"
     /\ s.ends
  \/ s.len > 120
  \/ s.frags >= 2

\* A line of a text, stripped: the string and what the other patterns find
\* in it: header (_HEADER_PATTERNS), digits (only digits, brackets and
\* separators), garbage (_is_garbage_line), law (the known law name it
\* contains, or EmptyStr), amend (改正), chapter (第一章 ...)
MkLine(s, header, digits, garbage, law, amend, chapter) ==
  [s |-> s, header |-> header, digits |-> digits, garbage |-> garbage, law |-> law,
   amend |-> amend, chapter |-> chapter]

\* "消防法"
FireServiceAct == MkStr(3, <<"kanji", "kanji", "kanji">>, FALSE, FALSE, 3, 0)

NotFound == [found |-> FALSE, value |-> EmptyStr]
Found(s) == [found |-> TRUE, value |-> s]

\* guess_title._is_title_connectable
IsTitleConnectable(l) ==
  /\ 5 <= l.s.len /\ l.s.len <= 120
  /\ ~l.header
  /\ ~MidSentence(l.s)
  /\ ~NumberedItem(l.s)
  /\ is_meaningful_title(l.s)
  /\ ~is_ocr_garbled_title(l.s)
  /\ ~l.s.ends

\* guess_title._validate_title: the candidate is returned, or None
ValidTitle(c) ==
  /\ c.len > 0 /\ c.len <= 120
  /\ ~is_ocr_garbled_title(c)
  /\ ~NumberedItem(c)
  /\ is_meaningful_title(c)

\* lines 876-888 (and 893-904): the line k joined to the line before it, or
\* to the two lines before it
JoinPrev(lines, k) ==
  IF k > 1 /\ IsTitleConnectable(lines[k - 1])
  THEN LET two == JoinStr(lines[k - 1].s, lines[k].s)
           three == IF k > 2 THEN JoinStr(lines[k - 2].s, two) ELSE EmptyStr
       IN  IF k > 2 /\ IsTitleConnectable(lines[k - 2]) /\ ValidTitle(three)
           THEN Found(three)
           ELSE IF ValidTitle(two) THEN Found(two) ELSE NotFound
  ELSE NotFound

\* lines 907-913: a short line completed by the next one
JoinNext(lines, k) ==
  IF 3 <= lines[k].s.len /\ lines[k].s.len < 10 /\ k < Len(lines)
  THEN LET combined == JoinStr(lines[k].s, lines[k + 1].s)
       IN  IF 10 <= combined.len /\ combined.len <= 120 /\ combined.ends
              /\ ValidTitle(combined)
           THEN Found(combined) ELSE NotFound
  ELSE NotFound

\* the first loop of guess_title, from line k on (lines[:100])
RECURSIVE TitlePattern1(_, _)
TitlePattern1(lines, k) ==
  IF k > Len(lines) \/ k > 100 THEN NotFound
  ELSE LET s == lines[k].s IN
       IF 10 <= s.len /\ s.len <= 120 /\ s.ends
       THEN IF is_ocr_garbled_title(s) \/ NumberedItem(s)
            THEN TitlePattern1(lines, k + 1)
            ELSE IF JoinPrev(lines, k).found THEN JoinPrev(lines, k) ELSE Found(s)
       ELSE IF 3 <= s.len /\ s.len <= 9 /\ s.ends /\ JoinPrev(lines, k).found
       THEN JoinPrev(lines, k)
       ELSE IF JoinNext(lines, k).found THEN JoinNext(lines, k)
       ELSE TitlePattern1(lines, k + 1)

\* the second loop of guess_title, from line k on (lines[:80])
RECURSIVE TitlePattern2(_, _)
TitlePattern2(lines, k) ==
  IF k > Len(lines) \/ k > 80 THEN NotFound
  ELSE LET l == lines[k]
           combined == IF k < Len(lines) THEN JoinStr(l.s, lines[k + 1].s) ELSE EmptyStr
       IN  IF \/ l.s.len < 8 \/ l.s.len > 120
              \/ l.digits
              \/ l.header
              \/ MidSentence(l.s)
              \/ ~is_meaningful_title(l.s)
              \/ is_ocr_garbled_title(l.s)
              \/ NumberedItem(l.s)
           THEN TitlePattern2(lines, k + 1)
           ELSE IF k < Len(lines) /\ ValidTitle(combined) /\ combined.ends
           THEN Found(combined)
           ELSE Found(l.s)

guess_title(text, fallback) ==
  IF TitlePattern1(text, 1).found THEN TitlePattern1(text, 1).value
  ELSE IF TitlePattern2(text, 1).found THEN TitlePattern2(text, 1).value
  ELSE fallback

\* guess_title_law, lines 956-963: a known law name in one of lines[:30]
RECURSIVE LawPattern1(_, _)
LawPattern1(lines, k) ==
  IF k > Len(lines) \/ k > 30 THEN NotFound
  ELSE LET l == lines[k] IN
       IF l.law.len > 0 /\ l.s.len <= 80
       THEN IF l.amend /\ l.s.len >= 10 THEN Found(l.s) ELSE Found(l.law)
       ELSE LawPattern1(lines, k + 1)

\* lines 970-974: the last line before line k that can be a law name
RECURSIVE LawNameBefore(_, _)
LawNameBefore(lines, j) ==
  IF j < 1 THEN NotFound
  ELSE IF lines[j].s.len >= 4 /\ lines[j].s.len <= 80 /\ ~lines[j].digits
  THEN Found(lines[j].s)
  ELSE LawNameBefore(lines, j - 1)

\* lines 966-975: the first chapter heading of lines[:50] ends the search
RECURSIVE LawPattern2(_, _)
LawPattern2(lines, k) ==
  IF k > Len(lines) \/ k > 50 THEN NotFound
  ELSE IF lines[k].chapter THEN LawNameBefore(lines, k - 1)
  ELSE LawPattern2(lines, k + 1)

\* lines 978-986 with limit 20 and longest 80, lines 996-1004 with 30 and 120
RECURSIVE FirstPlainLine(_, _, _, _)
FirstPlainLine(lines, k, limit, longest) ==
  IF k > Len(lines) \/ k > limit THEN NotFound
  ELSE IF \/ lines[k].s.len < 4 \/ lines[k].s.len > longest
          \/ lines[k].digits
          \/ lines[k].garbage
  THEN FirstPlainLine(lines, k + 1, limit, longest)
  ELSE Found(lines[k].s)

guess_title_law(text, fallback) ==
  IF LawPattern1(text, 1).found THEN LawPattern1(text, 1).value
  ELSE IF LawPattern2(text, 1).found THEN LawPattern2(text, 1).value
  ELSE IF FirstPlainLine(text, 1, 20, 80).found THEN FirstPlainLine(text, 1, 20, 80).value
  ELSE fallback

guess_title_manual(text, fallback) ==
  IF FirstPlainLine(text, 1, 30, 120).found THEN FirstPlainLine(text, 1, 30, 120).value
  ELSE fallback

\* ---------------------------------------------------------- summaries
\* A summary is its length.  A text, as the summary functions see it:
\* blank (nothing but white space), ki (it has the line 記), intent (the
\* length of its intent sentence, 0 when it has none), body (the length of
\* what _format_summary keeps of its body before the cut), date (the length
\* of its enforcement date, 0 when it has none; the date is not part of the
\* composed text), structure (the length of the [目的], [構成], [条文構成]
\* and [施行日] parts of a law or a manual, 0 when it has none)
Max(a, b) == IF a > b THEN a ELSE b
Min(a, b) == IF a < b THEN a ELSE b

\* len(s[:n]) for a string of length len: a negative n counts from the end
Slice(len, n) == IF n >= 0 THEN Min(len, n) ELSE Max(len + n, 0)

\* mutant: nothing is cut
CutMark_uncut(len, n) == len

\* len(s[:n] + ("…" if len(s) > n else ""))
CutMark(len, n) == Slice(len, n) + (IF len > n THEN 1 ELSE 0)

\* _format_summary(core, n): the kept lines, cut at n
format_summary(t, n) == CutMark(t.body, n)

\* "[趣旨] ", "[要点]\n", "[目的] " have 5 characters, "\n[施行・適用] " has 9
Labelled(len) == IF len > 0 THEN 5 + len ELSE 0
JoinParts(a, b) == IF a > 0 /\ b > 0 THEN a + 1 + b ELSE a + b

\* lines 1275-1314: the intent before 記, the body after it
SummaryWithKi(t, n) ==
  LET intent == Min(t.intent, IntentCap)
      body_part == format_summary(t, Max(200, n - intent - 40))
  IN  JoinParts(Labelled(intent), Labelled(body_part))

\* lines 1316-1376: the body after the title, its first sentence as intent
SummaryWithoutKi(t, n) ==
  LET body_formatted == format_summary(t, n - 20)
      rest == body_formatted - t.intent - 1
  IN  IF t.intent > 0 /\ body_formatted >= t.intent
      THEN JoinParts(Labelled(t.intent), IF rest > 0 THEN Labelled(rest) ELSE 0)
      ELSE body_formatted

\* lines 1378-1382: the enforcement date is appended when it fits
WithEnforcementDate(combined, t, n) ==
  IF t.date > 0 /\ combined + 9 + t.date <= n + 40 THEN combined + 9 + t.date
  ELSE combined

\* ocr_quality in hundredths
make_summary(t, n, ocr_quality) ==
  IF t.blank THEN 0
  ELSE IF ocr_quality < OcrSummaryBelow THEN PlaceholderLen
  ELSE CutMark(WithEnforcementDate(IF t.ki THEN SummaryWithKi(t, n)
                                   ELSE SummaryWithoutKi(t, n), t, n), n)

make_summary_law(t, n) ==
  IF t.blank THEN 0
  ELSE IF t.structure = 0 /\ t.date = 0 THEN format_summary(t, n)
  ELSE CutMark(JoinParts(t.structure, Labelled(t.date)), n)

\* without a part the stripped lines are joined until n characters are
\* reached, and cut
make_summary_manual(t, n) ==
  IF t.blank THEN 0
  ELSE IF t.structure = 0 THEN CutMark(t.body, n)
  ELSE CutMark(t.structure, n)

\* ------------------------------------------------------- the review policy
Verdict(needs_rev, reason) == [needs_review |-> needs_rev, reason |-> reason]

MissingReason(method, ext) ==
  CASE method = "xdw_text_extractor_missing" -> "docuworks_tool_missing"
    [] method = "unhandled" -> "unsupported_format"
    [] method = "pymupdf_missing" -> "pymupdf_not_installed"
    [] method = "excel_lib_missing" -> "excel_library_not_installed"
    [] OTHER -> "extraction_failed"

\* mutant: the OCR quality rule of line 2828 left out
Review_noOcrRule(method, ext, text_len, file_size, ocr_q, e) ==
  IF method \in {"unhandled", "error"} \/ ContainsMissing(method)
  THEN Verdict(TRUE, MissingReason(method, ext))
  ELSE IF ext \in {".xlsx", ".xlsm", ".xls", ".csv", ".txt"}
  THEN Verdict(FALSE, "")
  ELSE Verdict(text_len < MinTextLen
                 \/ (file_size > BigFileSize /\ text_len < ShortTextLen), "short")

\* mutant: the OCR quality rule flags the record and gives no reason
Review_ocrNoReason(method, ext, text_len, file_size, ocr_q, e) ==
  IF ocr_q < OcrReviewBelow /\ ~Review_noOcrRule(method, ext, text_len, file_size, ocr_q, e).needs_review
  THEN Verdict(TRUE, "")
  ELSE IF method \in {"unhandled", "error"} \/ ContainsMissing(method)
  THEN Verdict(TRUE, MissingReason(method, ext))
  ELSE IF Review_noOcrRule(method, ext, text_len, file_size, ocr_q, e).needs_review
  THEN Verdict(TRUE, "short")
  ELSE Verdict(FALSE, "")

\* needs_rev and reason, lines 2796-2830
Review(method, ext, text_len, file_size, ocr_q, e) ==
  LET first ==
        IF method \in {"unhandled", "error"} \/ ContainsMissing(method)
        THEN Verdict(TRUE, MissingReason(method, ext))
        ELSE IF ext \in {".xlsx", ".xlsm", ".xls", ".csv", ".txt"}
        THEN Verdict(FALSE, "")
        ELSE IF text_len < MinTextLen
        THEN Verdict(TRUE, IF ext = ".pdf" /\ ~e.tesseract THEN "image_pdf_no_tesseract"
                           ELSE IF ext = ".pdf" THEN "ocr_could_not_read"
                           ELSE "body_almost_empty")
        ELSE IF file_size > BigFileSize /\ text_len < ShortTextLen
        THEN Verdict(TRUE, "text_too_short_for_size")
        ELSE Verdict(FALSE, "")
  IN  IF ocr_q < OcrReviewBelow /\ ~first.needs_review
      THEN Verdict(TRUE, "low_ocr_quality")
      ELSE first

\* ----------------------------------------------------------------- Record
\* os.path.relpath of a file of the input folder
RelPath(f) == IF f.folder = "" THEN <<"file">> ELSE <<f.folder, "file">>

\* payload: "# 本文\n" and the main part, then the attachment part if any;
\* BlankPayload is the default "" of Record.full_text_for_bind
Payload(sp) == [header |-> TRUE, main |-> sp.main, attach |-> sp.attach]
BlankPayload == [header |-> FALSE, main |-> 0, attach |-> 0]
IsBlank(p) == ~p.header /\ p.main = 0 /\ p.attach = 0

\* the Record appended on a cache miss, lines 2777-2857 (mtime, out_txt and
\* tag_evidence are left out: they are set like size and tags_facility)
FreshRecord(rel, f, sha, ocr_on, e) ==
  LET x == Extract(f, ocr_on, e)
      text == convert_japanese_year(x.text)
      sp == split_main_attach(text)
      text_len == IF sp.main > 0 THEN sp.main ELSE TextLen(text)
      ocr_q == IF ContainsOcr(x.method) THEN compute_ocr_quality(text) ELSE 100
      date_guess == guess_date(text)
      v == Review(x.method, f.ext, text_len, f.size, ocr_q, e)
  IN  [relpath |-> rel, ext |-> f.ext, size |-> f.size, sha1 |-> sha,
       method |-> x.method, pages |-> x.pages, text_chars |-> TextLen(text),
       needs_review |-> v.needs_review, reason |-> v.reason,
       title_guess |-> "", date_guess |-> date_guess, issuer_guess |-> "",
       summary |-> "", tags_facility |-> {}, tags_work |-> {},
       full_text_for_bind |-> Payload(sp),
       doc_type |-> detect_doc_type(RelPath(f), text),
       ocr_quality |-> ocr_q, related_laws |-> <<>>, amendments |-> <<>>,
       date_sort_key |-> date_to_sort_key(date_guess)]

\* mutant: ocr_quality is not taken from the entry and gets its default
Rehydrate_defaults(cached, rel, sha) ==
  [cached EXCEPT !.relpath = rel, !.sha1 = sha, !.ocr_quality = 100]

\* Record(**{**cached, "relpath": rel, "sha1": sha1})
Rehydrate(cached, rel, sha) == [cached EXCEPT !.relpath = rel, !.sha1 = sha]

\* compute_sha1: "" (here 0) when the file cannot be opened
compute_sha1(f) == IF f.readable THEN f.content ELSE 0

\* ------------------------------------------------------------ the manifest
\* 00_manifest.json: absent, unparsable, or a version marker and entries;
\* an entry is the asdict of a Record, or (ok = FALSE) something that
\* Record(**...) rejects
NoEntries == [h \in {} |-> 0]
AbsentFile == [state |-> "absent", version |-> 0, entries |-> NoEntries]
CorruptFile == [state |-> "corrupt", version |-> 0, entries |-> NoEntries]

\* lines 2698-2710: which branch the load takes
LoadBranch(file, version) ==
  CASE file.state = "absent" -> "absent"
    [] file.state = "corrupt" -> "corrupt"
    [] file.version # version -> "mismatch"
    [] OTHER -> "ok"

\* mutant: the version marker is not compared
LoadManifest_anyVersion(file, version) ==
  IF file.state = "ok" THEN file.entries ELSE NoEntries

\* lines 2698-2710: the in-memory manifest
LoadManifest(file, version) ==
  IF LoadBranch(file, version) = "ok" THEN file.entries ELSE NoEntries

\* mutant: the duplicate check left out
IsDuplicate_unchecked(sha, seen) == FALSE

\* line 2735
IsDuplicate(sha, seen) == sha # 0 /\ sha \in seen

\* mutant: the cache is never consulted
IsCacheHit_never(sha, m) == FALSE

\* mutant: the entry is used without Record accepting it
IsCacheHit_unvalidated(sha, m) == sha # 0 /\ sha \in DOMAIN m

\* line 2742 and the try of 2743-2753: the entry is there and Record accepts it
IsCacheHit(sha, m) == sha # 0 /\ sha \in DOMAIN m /\ m[sha].ok

\* mutant: a record without a hash is cached too
Cacheable_anyHash(r) == ~r.needs_review

\* mutant: flagged records are cached too
Cacheable_unfiltered(r) == r.sha1 # 0

\* line 2919: the records that go into the new manifest
Cacheable(r) == r.sha1 # 0 /\ ~r.needs_review

\* mutant: every record with a hash is written
WriteManifest_all(recs, version) ==
  LET keep == { k \in 1..Len(recs) : recs[k].sha1 # 0 }
      keys == { recs[k].sha1 : k \in keep }
  IN  [state |-> "ok", version |-> version,
       entries |-> [h \in keys |->
                      [ok |-> TRUE,
                       rec |-> recs[CHOOSE k \in keep : recs[k].sha1 = h]]]]

\* lines 2917-2923: manifest_new, as written
WriteManifest(recs, version) ==
  LET keep == { k \in 1..Len(recs) : Cacheable(recs[k]) }
      keys == { recs[k].sha1 : k \in keep }
  IN  [state |-> "ok", version |-> version,
       entries |-> [h \in keys |->
                      [ok |-> TRUE,
                       rec |-> recs[CHOOSE k \in keep : recs[k].sha1 = h]]]]

\* ---------------------------------------------------------------- sorting
DocTypes == <<"Law", "Notice", "Manual">>

\* a < b for Python strings of digits: the first differing digit decides, a
\* proper prefix is smaller
RECURSIVE StrLess(_, _)
StrLess(a, b) ==
  IF b = <<>> THEN FALSE
  ELSE IF a = <<>> THEN TRUE
  ELSE IF Head(a) # Head(b) THEN Head(a) < Head(b)
  ELSE StrLess(Tail(a), Tail(b))

\* list.sort(key=date_sort_key, reverse=True) is stable: r goes behind every
\* element whose key is not smaller
RECURSIVE InsertDesc(_, _)
InsertDesc(sorted, r) ==
  IF sorted = <<>> THEN <<r>>
  ELSE IF ~StrLess(Head(sorted).date_sort_key, r.date_sort_key)
       THEN <<Head(sorted)>> \o InsertDesc(Tail(sorted), r)
       ELSE <<r>> \o sorted

RECURSIVE SortDesc(_)
SortDesc(s) ==
  IF s = <<>> THEN <<>>
  ELSE InsertDesc(SortDesc(SubSeq(s, 1, Len(s) - 1)), s[Len(s)])

OfType(recs, dtype) == SelectSeq(recs, LAMBDA r : r.doc_type = dtype)

\* the groups of write_binded_texts: a type that is none of the three goes
\* with the notices
BundleType(r) == IF r.doc_type \in {"Law", "Notice", "Manual"} THEN r.doc_type ELSE "Notice"
InGroup(recs, dtype) == SelectSeq(recs, LAMBDA r : BundleType(r) = dtype)

\* mutant: the records stay in the order they were appended in
SortRecords_asAppended(recs) == recs

\* lines 2859-2870
SortRecords(recs) ==
  SortDesc(OfType(recs, "Law")) \o SortDesc(OfType(recs, "Notice"))
    \o SortDesc(OfType(recs, "Manual"))

\* --------------------------------------------------------------- bundling
DEFAULTS_bind_bytes_limit == 15728640

\* len(block.encode("utf-8")): the frame of the block and the payload
BlockBytes(r) ==
  200 + 3 * (r.full_text_for_bind.main + r.full_text_for_bind.attach)

\* the loop of write_binded_texts over one type: st.files are the bundle
\* files written (each the relpaths of its blocks).  flush() clears
\* current_blocks but sets only its own copy of current_size to zero
\* mutant: the blocks left in the buffer after the loop are not written
FlushEnd_dropped(st) == st.files

\* the flush() after the loop: the remainder, if any, is one more file
FlushEnd(st) == IF st.blocks = <<>> THEN st.files ELSE Append(st.files, st.blocks)

RECURSIVE BundleGroup(_, _, _)
BundleGroup(group, limit_bytes, st) ==
  IF group = <<>> THEN FlushEnd(st)
  ELSE IF IsBlank(Head(group).full_text_for_bind)
  THEN BundleGroup(Tail(group), limit_bytes, st)
  ELSE LET r == Head(group)
           b_len == BlockBytes(r)
           over == st.size + b_len > limit_bytes /\ st.size > 0
           flushed == over /\ st.blocks # <<>>
       IN  BundleGroup(Tail(group), limit_bytes,
             [files |-> IF flushed THEN Append(st.files, st.blocks) ELSE st.files,
              blocks |-> IF over THEN <<r.relpath>> ELSE Append(st.blocks, r.relpath),
              size |-> st.size + b_len])

\* write_binded_texts: the bundle files by type, in the order Law, Notice, Manual
write_binded_texts(recs, limit_bytes) ==
  [t \in 1..3 |->
     BundleGroup(InGroup(recs, DocTypes[t]), limit_bytes,
                 [files |-> <<>>, blocks |-> <<>>, size |-> 0])]

\* glob("NotebookLM用_*.txt") after the bundling: the files of this run
NumBundleFiles(b) == Len(b[1]) + Len(b[2]) + Len(b[3])

\* ----------------------------------------------- copies of the originals
\* line 2878: the slots left for originals in one notebook
pdf_slots(n_bundle_files) ==
  IF NotebookSlots - PreambleSlots - n_bundle_files > 0
  THEN NotebookSlots - PreambleSlots - n_bundle_files ELSE 0

\* mutant: no file is too big for a notebook
TooBig_never(file_size) == FALSE

\* line 1791
TooBig(file_size) == file_size > MAX_FILE_BYTES

\* mutant: a batch is closed only when its slots are used up
need_new_slotsOnly(st, file_size, slots_per_batch) ==
  ~st.current_dir \/ Len(st.current_files) >= slots_per_batch

\* lines 1796-1800; current_dir is "a batch folder is open"
need_new(st, file_size, slots_per_batch) ==
  \/ ~st.current_dir
  \/ Len(st.current_files) >= slots_per_batch
  \/ st.current_bytes + file_size > MAX_BATCH_BYTES

\* _flush: the open batch is kept if it has files
Flush(st) ==
  [st EXCEPT !.batches = IF st.current_dir /\ st.current_files # <<>>
                         THEN Append(@, st.current_files) ELSE @,
             !.current_dir = FALSE, !.current_files = <<>>, !.current_bytes = 0]

\* _new_batch
NewBatch(st) ==
  [Flush(st) EXCEPT !.batch_num = @ + 1, !.current_dir = TRUE]

\* mutant: the flattened name is used as it is
FreeName_unchecked(flat, used_names) == flat

\* lines 1805-1811.  A file name is the sequence of its stem and the numeric
\* suffixes after it: <<"a_b">> is a_b.pdf, <<"a_b", 1>> is a_b_1.pdf.  The
\* first free one of safe_name, base_1, base_2, ...
FreeName(flat, used_names) ==
  IF flat \notin used_names THEN flat
  ELSE Append(flat, CHOOSE c \in 1..(Cardinality(used_names) + 1) :
                      /\ Append(flat, c) \notin used_names
                      /\ \A d \in 1..(c - 1) : Append(flat, d) \in used_names)

\* the loop over the records, lines 1781-1820, and the last _flush.
\* disk[relpath]: isfile (the original is still there), size (getsize),
\* copies (copy2 succeeds), flat (relpath with the separators replaced)
RECURSIVE CopyLoop(_, _, _, _)
CopyLoop(recs, slots_per_batch, disk, st) ==
  IF recs = <<>>
  THEN [batches |-> Flush(st).batches, skipped |-> st.skipped]
  ELSE LET r == Head(recs)
           d == disk[r.relpath]
       IN  IF r.ext # ".pdf" \/ ~d.isfile
           THEN CopyLoop(Tail(recs), slots_per_batch, disk, st)
           ELSE IF TooBig(d.size)
           THEN CopyLoop(Tail(recs), slots_per_batch, disk,
                  [st EXCEPT !.skipped =
                     Append(@, [relpath |-> r.relpath, reason |-> "size_exceeded"])])
           ELSE LET s1 == IF need_new(st, d.size, slots_per_batch)
                          THEN NewBatch(st) ELSE st
                    candidate == FreeName(d.flat, s1.used_names)
                    s2 == [s1 EXCEPT !.used_names = @ \cup {candidate}]
                    dst == [relpath |-> r.relpath, name |-> candidate, size |-> d.size]
                IN  CopyLoop(Tail(recs), slots_per_batch, disk,
                      IF d.copies
                      THEN [s2 EXCEPT !.current_files = Append(@, dst),
                                      !.current_bytes = @ + d.size]
                      ELSE s2)

NoBatches == [batches |-> <<>>, skipped |-> <<>>]

copy_source_files_batched(recs, slots_per_batch, disk) ==
  CopyLoop(recs, slots_per_batch, disk,
           [batches |-> <<>>, skipped |-> <<>>, used_names |-> {},
            current_dir |-> FALSE, current_files |-> <<>>, current_bytes |-> 0,
            batch_num |-> 0])

\* lines 2885-2891: the review breakdown, reason (or method) -> count
ReviewKey(r) == IF r.reason # "" THEN r.reason ELSE r.method
ReviewBreakdown(recs) ==
  LET flagged == { k \in 1..Len(recs) : recs[k].needs_review }
      keys == { ReviewKey(recs[k]) : k \in flagged }
  IN  [key \in keys |-> Cardinality({ k \in flagged : ReviewKey(recs[k]) = key })]

NeedsReviewCount(recs) == Cardinality({ k \in 1..Len(recs) : recs[k].needs_review })

\* ------------------------------------------------------------- the window
\* the App of noticeforge_gui.py: the widgets that start a run, the modal
\* dialogs that are open (the last one is on top and holds the grab), the
\* worker threads inside process_folder, the callbacks queued with after(0, ..)
Widgets == {"run_btn", "in_btn", "out_btn", "chk_ocr", "ocr_retry_btn"}
BusyWidgets == {"run_btn", "in_btn", "out_btn", "chk_ocr"}
Dialogs == {"showwarning", "askyesno_start", "askyesno_retry", "showinfo", "showerror"}

\* what a call of process_folder ends with
NoOutcome == [kind |-> "none", value |-> <<>>]
Returns(total, needs, breakdown) ==
  [kind |-> "return", value |-> << total, needs, breakdown >>]
Raises(exception) == [kind |-> exception, value |-> <<>>]
Outcomes(files) ==
  { Returns(x[1], x[2], x[3]) :
      x \in { y \in (0..files) \X (0..files) \X (0..files) :
                /\ y[2] <= y[1]
                /\ y[3] <= y[2]
                /\ (y[3] = 0) <=> (y[2] = 0) } }
    \cup { Raises("PermissionError"), Raises("Exception") }

\* the arguments of a call of _done, and the outcome the call is made for
DoneCall(total, needs, is_error, outcome) ==
  [total |-> total, needs |-> needs, is_error |-> is_error, of |-> outcome]
NoDone == DoneCall(0, 0, FALSE, NoOutcome)

\* App.__init__ and _build_ui
NewApp ==
  [ busy |-> FALSE,
    state |-> [w \in Widgets |-> IF w = "ocr_retry_btn" THEN "disabled" ELSE "normal"],
    use_ocr |-> FALSE,
    input_dir |-> FALSE,      \* the entry holds a path
    output_dir |-> FALSE,
    dialogs |-> <<>>,
    workers |-> <<>>,         \* do_ocr of each thread inside process_folder
    events |-> <<>>,          \* the _done callbacks waiting in the event loop
    last_done |-> NoDone ]

\* mutant: the widgets stay usable during a run
WidgetState_normal(busy) == "normal"

WidgetState(busy) == IF busy THEN "disabled" ELSE "normal"

set_busy(app, busy) ==
  [app EXCEPT !.busy = busy,
              !.state = [w \in Widgets |->
                           IF w \in BusyWidgets THEN WidgetState(busy) ELSE app.state[w]]]

pick_input(app, p) ==
  IF p THEN [app EXCEPT !.input_dir = TRUE, !.output_dir = TRUE] ELSE app

pick_output(app, p) ==
  IF p THEN [app EXCEPT !.output_dir = TRUE] ELSE app

Shown(app, dialog) == [app EXCEPT !.dialogs = Append(@, dialog)]
Closed(app) == [app EXCEPT !.dialogs = SubSeq(@, 1, Len(@) - 1)]
Top(app) == app.dialogs[Len(app.dialogs)]

\* start, up to its question
start(app, isdir) ==
  IF ~app.input_dir \/ ~isdir THEN Shown(app, "showwarning")
  ELSE IF ~app.output_dir THEN Shown(app, "showwarning")
  ELSE Shown(app, "askyesno_start")

\* retry_with_ocr, up to its question
retry_with_ocr(app) ==
  IF ~app.input_dir \/ ~app.output_dir THEN app
  ELSE Shown(app, "askyesno_retry")

\* _run; when os.makedirs raises nothing else happens
run(app, do_ocr, makedirs_ok) ==
  IF ~makedirs_ok THEN app
  ELSE [set_busy(app, TRUE) EXCEPT !.state["ocr_retry_btn"] = "disabled",
                                   !.workers = Append(@, do_ocr)]

\* the rest of start and of retry_with_ocr, once the question is answered
Answered(app, ans, makedirs_ok) ==
  LET asked == Top(app)
      back == Closed(app)
  IN  IF ~ans THEN back
      ELSE IF asked = "askyesno_start" THEN run(back, back.use_ocr, makedirs_ok)
      ELSE run([back EXCEPT !.use_ocr = TRUE], TRUE, makedirs_ok)

\* `total, needs = ...`: a tuple unpacks into as many names as it has values
WorkerNames == 2
Unpacks(value, names) == Len(value) = names

\* _worker, after process_folder: the call of _done it hands to the event loop
worker(outcome) ==
  IF outcome.kind = "return" /\ Unpacks(outcome.value, WorkerNames)
    THEN DoneCall(outcome.value[1], outcome.value[2], FALSE, outcome)
    ELSE DoneCall(0, 0, TRUE, outcome)

\* _done
done(app, d) ==
  LET idle == set_busy(app, FALSE)
      retry == IF d.needs > 0 /\ ~idle.use_ocr THEN "normal"
               ELSE idle.state["ocr_retry_btn"]
      after == IF d.is_error THEN Shown(idle, "showerror")
               ELSE Shown([idle EXCEPT !.state["ocr_retry_btn"] = retry], "showinfo")
  IN  [after EXCEPT !.last_done = d]

\* ------------------------------------------------------------------ state
VARIABLES
  targets,        \* the input folder: indices into FileUniverse, in walk order
  env,            \* which optional libraries this installation has
  cache_version,  \* _CACHE_VERSION of the program that runs
  manifest_file,  \* 00_manifest.json in the output folder
  pc,             \* "idle", or where process_folder is: "check", "hash",
                  \* "extract", "post"
  use_ocr,        \* cfg["use_ocr"] of the run
  i,              \* the loop index (0-based) of process_folder
  sha1,           \* the hash of the file in hand
  records, seen_sha1, skipped_dup, skipped_cache,
  manifest,       \* the manifest as loaded by this run
  stop_event,     \* the caller's cancel flag
  bundles,        \* the NotebookLM bundle files of the last run, by type
  batches,        \* the batches of copied originals of the last run, and the skipped
  result,         \* what the last run returned
  \* what happened, kept for the properties
  polls, hashed, extracted,   \* per file of this run: how often
  hits, dups,     \* the files of this run served from the cache / dropped as duplicates
  callbacks,      \* the calls of progress_callback of this run, in order
  stopInFlight,   \* the flag was set while a file was in hand (hash or extract)
  intact,         \* the cache file is as the previous run wrote it, same version
  loadedIntact,   \* intact, when this run loaded the cache
  prevRecords,    \* the records of the previous run
  \* a function of the module called on its own
  call,           \* the function and its arguments
  ret,            \* what it returned
  \* the window of noticeforge_gui.py
  gui

vars ==
  << targets, env, cache_version, manifest_file, pc, use_ocr, i, sha1, records,
     seen_sha1, skipped_dup, skipped_cache, manifest, stop_event, bundles,
     result, polls, hashed, extracted, hits, dups, callbacks,
     stopInFlight, intact, loadedIntact, prevRecords, batches, call, ret, gui >>

inputVars == << targets, env >>
cacheVars == << cache_version, manifest_file >>
loopVars == << records, seen_sha1, skipped_dup, skipped_cache >>
outVars == << bundles, batches, result >>
callVars == << call, ret >>
guiVars == << gui >>
histVars == << polls, hashed, extracted, hits, dups, callbacks >>

File(k) == FileUniverse[targets[k]]
Zeros == [k \in 1..Len(targets) |-> 0]
NoResult == [total |-> 0, needs |-> 0, breakdown |-> NoEntries, returned |-> FALSE]

NoCall == [fn |-> "none"]
NotReturned == [done |-> FALSE]

\* nothing has run yet
Idle ==
  /\ cache_version = CACHE_VERSION
  /\ manifest_file = AbsentFile
  /\ pc = "idle"
  /\ use_ocr = FALSE
  /\ i = 0
  /\ sha1 = 0
  /\ records = <<>>
  /\ seen_sha1 = {}
  /\ skipped_dup = 0
  /\ skipped_cache = 0
  /\ manifest = NoEntries
  /\ stop_event = FALSE
  /\ bundles = <<>>
  /\ batches = NoBatches
  /\ result = NoResult
  /\ polls = Zeros
  /\ hashed = Zeros
  /\ extracted = Zeros
  /\ hits = {}
  /\ dups = {}
  /\ callbacks = <<>>
  /\ stopInFlight = FALSE
  /\ intact = FALSE
  /\ loadedIntact = FALSE
  /\ prevRecords = <<>>
  /\ gui = NewApp

Init ==
  /\ targets \in InputFolders
  /\ env \in Envs
  /\ Idle
  /\ call = NoCall
  /\ ret = NotReturned

\* ---------------------------------------------------------------- actions
\* mutant: the flag is read and not acted on
AfterPoll_ignored(flag) == "hash"

\* lines 2724-2726: break when the flag is set, else go on with the file
AfterPoll(flag) == IF flag THEN "post" ELSE "hash"

\* mutant: the loop index is reported as it is, counted from 0
Current_zeroBased(idx) == idx

\* i + 1 of lines 2730-2762: the 1-based index of the file in hand
Current(idx) == idx + 1

\* progress_callback(i + 1, total_files, rel, status); the statuses are
\* "checking" (確認中), "duplicate" (重複・スキップ), "cache" (キャッシュ使用),
\* "extracting" (抽出中) and "ocr" (OCR処理中)
Reported(cbs, idx, status) ==
  Append(cbs, [current |-> Current(idx), total |-> Len(targets), status |-> status])

\* process_folder is called: lines 2637-2720
StartRun(ocr) ==
  /\ pc = "idle"
  /\ use_ocr' = ocr
  /\ manifest' = LoadManifest(manifest_file, cache_version)
  /\ stopInFlight' = FALSE
  /\ loadedIntact' = intact
  /\ prevRecords' = records
  /\ records' = <<>>
  /\ seen_sha1' = {}
  /\ skipped_dup' = 0
  /\ skipped_cache' = 0
  /\ i' = 0
  /\ sha1' = 0
  /\ stop_event' = FALSE
  /\ bundles' = <<>>
  /\ batches' = NoBatches
  /\ result' = NoResult
  /\ polls' = Zeros
  /\ hashed' = Zeros
  /\ extracted' = Zeros
  /\ hits' = {}
  /\ dups' = {}
  /\ callbacks' = <<>>
  /\ pc' = "check"
  /\ UNCHANGED << inputVars, callVars, guiVars, cacheVars, intact >>

\* the caller sets the flag while process_folder runs
SetStop ==
  /\ pc \in {"check", "hash", "extract"}
  /\ ~stop_event
  /\ stop_event' = TRUE
  /\ stopInFlight' = (pc \in {"hash", "extract"})
  /\ UNCHANGED << inputVars, callVars, guiVars, cacheVars, pc, use_ocr, i, sha1, loopVars, manifest,
                  outVars, histVars, intact,
                  loadedIntact, prevRecords >>

\* lines 2722-2730: the flag is read; if clear, the pre-hash callback
Poll ==
  /\ pc = "check"
  /\ i < Len(targets)
  /\ polls' = [polls EXCEPT ![i + 1] = @ + 1]
  /\ pc' = AfterPoll(stop_event)
  /\ callbacks' = IF pc' = "post" THEN callbacks ELSE Reported(callbacks, i, "checking")
  /\ UNCHANGED << inputVars, callVars, guiVars, cacheVars, use_ocr, i, sha1, loopVars, manifest,
                  stop_event, outVars, hashed, extracted, hits, dups,
                  stopInFlight, intact, loadedIntact, prevRecords >>

\* the for loop is exhausted
LoopEnd ==
  /\ pc = "check"
  /\ i = Len(targets)
  /\ pc' = "post"
  /\ UNCHANGED << inputVars, callVars, guiVars, cacheVars, use_ocr, i, sha1, loopVars, manifest,
                  stop_event, outVars, histVars, stopInFlight, intact, loadedIntact, prevRecords >>

\* lines 2732-2756: hash, duplicate check, cache lookup
HashFile ==
  /\ pc = "hash"
  /\ LET h == compute_sha1(File(i + 1)) IN
     /\ hashed' = [hashed EXCEPT ![i + 1] = @ + 1]
     /\ sha1' = h
     /\ \/ /\ IsDuplicate(h, seen_sha1)
           /\ skipped_dup' = skipped_dup + 1
           /\ dups' = dups \cup {i + 1}
           /\ callbacks' = Reported(callbacks, i, "duplicate")
           /\ i' = i + 1
           /\ pc' = "check"
           /\ UNCHANGED << records, seen_sha1, skipped_cache, hits >>
        \/ /\ ~IsDuplicate(h, seen_sha1)
           /\ IsCacheHit(h, manifest)
           /\ records' = Append(records, Rehydrate(manifest[h].rec, i + 1, h))
           /\ seen_sha1' = seen_sha1 \cup {h}
           /\ skipped_cache' = skipped_cache + 1
           /\ hits' = hits \cup {i + 1}
           /\ callbacks' = Reported(callbacks, i, "cache")
           /\ i' = i + 1
           /\ pc' = "check"
           /\ UNCHANGED << skipped_dup, dups >>
        \/ /\ ~IsDuplicate(h, seen_sha1)
           /\ ~IsCacheHit(h, manifest)
           /\ seen_sha1' = seen_sha1 \cup {h}
           /\ callbacks' = Reported(callbacks, i, "extracting")
           /\ pc' = "extract"
           /\ UNCHANGED << records, skipped_dup, skipped_cache, hits, dups, i >>
  /\ UNCHANGED << inputVars, callVars, guiVars, cacheVars, use_ocr, manifest, stop_event, outVars,
                  polls, extracted, stopInFlight,
                  intact, loadedIntact, prevRecords >>

\* lines 2758-2857: extraction, heuristics, review policy, the Record
ExtractFile ==
  /\ pc = "extract"
  /\ extracted' = [extracted EXCEPT ![i + 1] = @ + 1]
  /\ callbacks' = IF File(i + 1).ext = ".pdf" /\ use_ocr
                  THEN Reported(callbacks, i, "ocr") ELSE callbacks
  /\ records' = Append(records, FreshRecord(i + 1, File(i + 1), sha1, use_ocr, env))
  /\ i' = i + 1
  /\ pc' = "check"
  /\ UNCHANGED << inputVars, callVars, guiVars, cacheVars, use_ocr, sha1, seen_sha1, skipped_dup,
                  skipped_cache, manifest, stop_event, outVars, polls,
                  hashed, hits, dups, stopInFlight, intact,
                  loadedIntact, prevRecords >>

\* the originals as copy_source_files_batched finds them: a file that
\* cannot be opened cannot be copied; the flattened names of different
\* files of the input folder are taken to differ
Disk ==
  [k \in 1..Len(targets) |->
     [isfile |-> TRUE, size |-> File(k).size, copies |-> File(k).readable,
      flat |-> <<k>>]]

\* lines 2859-2928: sort, bundle, copy the originals, count, rewrite the
\* manifest, return
Finish ==
  /\ pc = "post"
  /\ LET sorted == SortRecords(records) IN
     /\ records' = sorted
     /\ bundles' = write_binded_texts(sorted, DEFAULTS_bind_bytes_limit)
     /\ batches' = copy_source_files_batched(sorted, pdf_slots(NumBundleFiles(bundles')), Disk)
     /\ manifest_file' = WriteManifest(sorted, cache_version)
     /\ result' = [total |-> Len(sorted), needs |-> NeedsReviewCount(sorted),
                   breakdown |-> ReviewBreakdown(sorted), returned |-> TRUE]
  /\ intact' = TRUE
  /\ pc' = "idle"
  /\ UNCHANGED << inputVars, callVars, guiVars, cache_version, use_ocr, i, sha1, seen_sha1,
                  skipped_dup, skipped_cache, manifest, stop_event, histVars, stopInFlight, loadedIntact, prevRecords >>

\* Between two runs at most one of these happens to the cache.
\* The program is upgraded: the manifest file is now one that a program
\* with the cache version before this one has written
BumpVersion ==
  /\ pc = "idle"
  /\ intact
  /\ manifest_file' = [manifest_file EXCEPT !.version = cache_version - 1]
  /\ intact' = FALSE
  /\ UNCHANGED << inputVars, callVars, guiVars, cache_version, pc, use_ocr, i, sha1, loopVars,
                  manifest, stop_event, outVars, histVars, stopInFlight, loadedIntact, prevRecords >>

\* The manifest file becomes unreadable or no valid JSON object
CorruptManifest ==
  /\ pc = "idle"
  /\ intact
  /\ manifest_file' = CorruptFile
  /\ intact' = FALSE
  /\ UNCHANGED << inputVars, callVars, guiVars, cache_version, pc, use_ocr, i, sha1, loopVars,
                  manifest, stop_event, outVars, histVars, stopInFlight, loadedIntact, prevRecords >>

\* One entry of the manifest file is damaged
DamageEntry(h) ==
  /\ pc = "idle"
  /\ intact
  /\ h \in DOMAIN manifest_file.entries
  /\ manifest_file.entries[h].ok
  /\ manifest_file' = [manifest_file EXCEPT !.entries[h].ok = FALSE]
  /\ intact' = FALSE
  /\ UNCHANGED << inputVars, callVars, guiVars, cache_version, pc, use_ocr, i, sha1, loopVars,
                  manifest, stop_event, outVars, histVars, stopInFlight, loadedIntact, prevRecords >>

Next ==
  \/ \E ocr \in BOOLEAN : StartRun(ocr)
  \/ SetStop
  \/ Poll
  \/ LoopEnd
  \/ HashFile
  \/ ExtractFile
  \/ Finish
  \/ BumpVersion
  \/ CorruptManifest
  \/ \E h \in 1..Len(FileUniverse) : DamageEntry(h)

Spec == Init /\ [][Next]_vars

\* ---------------------------------------- functions called on their own
runVars ==
  << targets, env, cache_version, manifest_file, pc, use_ocr, i, sha1, records,
     seen_sha1, skipped_dup, skipped_cache, manifest, stop_event, bundles,
     batches, result, polls, hashed, extracted, hits, dups, callbacks,
     stopInFlight, intact, loadedIntact, prevRecords >>

\* process_folder does not run: the input folder is empty
NoRun ==
  /\ targets = <<>>
  /\ env = (CHOOSE e \in Envs : e.tesseract)
  /\ Idle

\* _detect_doc_type(rel_path, text)
PathComponents == {"law", "manual", "law_manual", "docs"}
RelPaths(depth) == UNION { [1..n -> PathComponents] : n \in 1..depth }
ClassifierTexts == [articles : {0, 4, 5, 6}, notify : BOOLEAN]
ClassifyCalls(depth) ==
  [fn : {"_detect_doc_type"}, rel_path : RelPaths(depth), text : ClassifierTexts]

InitClassify == NoRun /\ call \in ClassifyCalls(MaxDepth) /\ ret = NotReturned

Classify ==
  /\ call.fn = "_detect_doc_type"
  /\ ~ret.done
  /\ ret' = [done |-> TRUE, value |-> detect_doc_type(call.rel_path, call.text)]
  /\ UNCHANGED << runVars, guiVars, call >>

NextClassify == Classify

SpecClassify == InitClassify /\ [][NextClassify]_vars

\* write_binded_texts(outdir, records, limit_bytes): records of the three
\* types and of a fourth, with a blank, a short and a long payload (blocks
\* of 500 and 800 bytes), under a limit of two blocks and the default one
BundleDocTypes == {"Law", "Notice", "Manual", "Other"}
BundlePayloads ==
  { BlankPayload, Payload([main |-> 100, attach |-> 0]),
    Payload([main |-> 150, attach |-> 50]) }
BundleLimits == {1500, DEFAULTS_bind_bytes_limit}
BundleRecords(max) ==
  UNION { { [k \in 1..n |-> [relpath |-> k, doc_type |-> c[k].doc_type,
                             full_text_for_bind |-> c[k].full_text_for_bind]] :
              c \in [1..n -> [doc_type : BundleDocTypes,
                              full_text_for_bind : BundlePayloads]] } :
          n \in 1..max }
BundleCalls(max) ==
  [fn : {"write_binded_texts"}, records : BundleRecords(max), limit_bytes : BundleLimits]

InitBundle == NoRun /\ call \in BundleCalls(MaxBundleRecs) /\ ret = NotReturned

Bundle ==
  /\ call.fn = "write_binded_texts"
  /\ ~ret.done
  /\ ret' = [done |-> TRUE,
             value |-> write_binded_texts(call.records, call.limit_bytes)]
  /\ UNCHANGED << runVars, guiVars, call >>

NextBundle == Bundle

SpecBundle == InitBundle /\ [][NextBundle]_vars

\* copy_source_files_batched(indir, outdir, records, slots_per_batch), as
\* process_folder calls it after n_bundle_files bundle files were written.
\* The originals: files of 50 MB whose flattened names collide, one of 1 MB,
\* one above 50 MB, one that is no PDF, one that is gone, one that cannot
\* be copied
FiftyMB == MAX_FILE_BYTES
OriginalFiles ==
  << [relpath |-> "a_b_1.pdf", ext |-> ".pdf", isfile |-> TRUE, size |-> FiftyMB,
      copies |-> TRUE, flat |-> <<"a_b", 1>>],
     [relpath |-> "a/b.pdf", ext |-> ".pdf", isfile |-> TRUE, size |-> FiftyMB,
      copies |-> TRUE, flat |-> <<"a_b">>],
     [relpath |-> "a_b.pdf", ext |-> ".pdf", isfile |-> TRUE, size |-> FiftyMB,
      copies |-> TRUE, flat |-> <<"a_b">>],
     [relpath |-> "x/y.pdf", ext |-> ".pdf", isfile |-> TRUE, size |-> FiftyMB,
      copies |-> TRUE, flat |-> <<"x_y">>],
     [relpath |-> "x_y.pdf", ext |-> ".pdf", isfile |-> TRUE, size |-> FiftyMB,
      copies |-> TRUE, flat |-> <<"x_y">>],
     [relpath |-> "x_y_1.pdf", ext |-> ".pdf", isfile |-> TRUE, size |-> 1048576,
      copies |-> TRUE, flat |-> <<"x_y", 1>>],
     [relpath |-> "big.pdf", ext |-> ".pdf", isfile |-> TRUE, size |-> FiftyMB + 1,
      copies |-> TRUE, flat |-> <<"big">>],
     [relpath |-> "note.txt", ext |-> ".txt", isfile |-> TRUE, size |-> FiftyMB + 1,
      copies |-> TRUE, flat |-> <<"note">>],
     [relpath |-> "gone.pdf", ext |-> ".pdf", isfile |-> FALSE, size |-> 0,
      copies |-> FALSE, flat |-> <<"gone">>],
     [relpath |-> "locked.pdf", ext |-> ".pdf", isfile |-> TRUE, size |-> FiftyMB,
      copies |-> FALSE, flat |-> <<"locked">>] >>

OrigIdx == 1..Len(OriginalFiles)
OrigDisk ==
  [p \in { OriginalFiles[k].relpath : k \in OrigIdx } |->
     OriginalFiles[CHOOSE k \in OrigIdx : OriginalFiles[k].relpath = p]]

\* the records of a selection of the originals, in their order
RECURSIVE RecordsOf(_)
RecordsOf(S) ==
  IF S = {} THEN <<>>
  ELSE LET k == CHOOSE m \in S : \A n \in S : m <= n
       IN  <<[relpath |-> OriginalFiles[k].relpath, ext |-> OriginalFiles[k].ext]>>
             \o RecordsOf(S \ {k})

BundleCounts == {0, 47, 48, 49, 50}
BatchCalls(max) ==
  { [fn |-> "copy_source_files_batched", records |-> RecordsOf(S), n_bundle_files |-> n] :
      S \in { T \in SUBSET OrigIdx : Cardinality(T) <= max },
      n \in BundleCounts }

InitBatch == NoRun /\ call \in BatchCalls(MaxOriginals) /\ ret = NotReturned

Batch ==
  /\ call.fn = "copy_source_files_batched"
  /\ ~ret.done
  /\ ret' = [done |-> TRUE,
             value |-> copy_source_files_batched(
                         call.records, pdf_slots(call.n_bundle_files), OrigDisk)]
  /\ UNCHANGED << runVars, guiVars, call >>

NextBatch == Batch

SpecBatch == InitBatch /\ [][NextBatch]_vars

\* guess_title, guess_title_law, guess_title_manual (text, fallback).  The
\* lines of the texts:
\*   消防法の一部を改正する法律の公布について   (a title, with a law name)
\*   河顧客に自ら危険物の取扱いについて         (a title behind a stray kanji)
\*   B危険物取扱いの手引き                     (a stray capital in front)
\*   消防危第284号                             (a document number)
\*   屋外タンク貯蔵所の                         (the first half of a title)
\*   1.概要                                    (a numbered item)
\*   について                                  (a title ending on its own line)
\*   消防法    第一章総則    2023    MNWMMMMUMN    and the empty line
TitleLines ==
  { MkLine(MkStr(20, <<"kanji", "kanji", "kanji">>, FALSE, TRUE, 20, 0),
           FALSE, FALSE, FALSE, FireServiceAct, TRUE, FALSE),
    MkLine(MkStr(17, <<"kanji", "kanji", "kanji">>, FALSE, TRUE, 17, 0),
           FALSE, FALSE, FALSE, EmptyStr, FALSE, FALSE),
    MkLine(MkStr(11, <<"upper", "kanji", "kanji">>, FALSE, FALSE, 10, 1),
           FALSE, FALSE, FALSE, EmptyStr, FALSE, FALSE),
    MkLine(MkStr(8, <<"kanji", "kanji", "kanji">>, FALSE, FALSE, 5, 0),
           TRUE, FALSE, FALSE, EmptyStr, FALSE, FALSE),
    MkLine(MkStr(9, <<"kanji", "kanji", "kanji">>, FALSE, FALSE, 9, 0),
           FALSE, FALSE, FALSE, EmptyStr, FALSE, FALSE),
    MkLine(MkStr(4, <<"digit", "sep", "kanji">>, FALSE, FALSE, 2, 0),
           FALSE, FALSE, FALSE, EmptyStr, FALSE, FALSE),
    MkLine(MkStr(4, <<"particle", "kanji", "kanji">>, FALSE, TRUE, 4, 0),
           FALSE, FALSE, FALSE, EmptyStr, FALSE, FALSE),
    MkLine(FireServiceAct, FALSE, FALSE, FALSE, FireServiceAct, FALSE, FALSE),
    MkLine(MkStr(5, <<"kanji", "kanji", "kanji">>, FALSE, FALSE, 5, 0),
           FALSE, FALSE, FALSE, EmptyStr, FALSE, TRUE),
    MkLine(MkStr(4, <<"digit", "digit", "digit">>, FALSE, FALSE, 0, 0),
           FALSE, TRUE, FALSE, EmptyStr, FALSE, FALSE),
    MkLine(MkStr(10, <<"upper", "upper", "upper">>, TRUE, FALSE, 0, 0),
           FALSE, FALSE, TRUE, EmptyStr, FALSE, FALSE),
    MkLine(EmptyStr, FALSE, FALSE, FALSE, EmptyStr, FALSE, FALSE) }

\* the fallbacks: "", A報告書, 通知文書
TitleFallbacks ==
  { EmptyStr,
    MkStr(4, <<"upper", "kanji", "kanji">>, FALSE, FALSE, 3, 1),
    MkStr(4, <<"kanji", "kanji", "kanji">>, FALSE, FALSE, 4, 0) }

TitleGuessers == {"guess_title", "guess_title_law", "guess_title_manual"}
TitleTexts(max) == UNION { [1..n -> TitleLines] : n \in 0..max }
TitleCalls(max) == [fn : TitleGuessers, text : TitleTexts(max), fallback : TitleFallbacks]

InitTitle == NoRun /\ call \in TitleCalls(MaxLines) /\ ret = NotReturned

GuessTitle ==
  /\ call.fn \in TitleGuessers
  /\ ~ret.done
  /\ ret' = [done |-> TRUE,
             value |-> CASE call.fn = "guess_title" -> guess_title(call.text, call.fallback)
                         [] call.fn = "guess_title_law" ->
                              guess_title_law(call.text, call.fallback)
                         [] OTHER -> guess_title_manual(call.text, call.fallback)]
  /\ UNCHANGED << runVars, guiVars, call >>

NextTitle == GuessTitle

SpecTitle == InitTitle /\ [][NextTitle]_vars

\* make_summary(main_text, n, title_hint, ocr_quality), make_summary_law and
\* make_summary_manual (text, n, title_hint)
Summarizers == {"make_summary", "make_summary_law", "make_summary_manual"}
SummaryTexts ==
  [blank : BOOLEAN, ki : BOOLEAN, intent : {0, 30, 250}, body : {0, 50, 400},
   date : {0, 9}, structure : {0, 60, 500}]
Budgets(max) == {0, 1, 10, 39, 40, 41, max}
OcrQualities == {0, 24, 25, 100}
SummaryCalls(max) ==
  [fn : Summarizers, text : SummaryTexts, n : Budgets(max), ocr_quality : OcrQualities]

InitSummary == NoRun /\ call \in SummaryCalls(MaxBudget) /\ ret = NotReturned

Summarize ==
  /\ call.fn \in Summarizers
  /\ ~ret.done
  /\ ret' = [done |-> TRUE,
             value |-> CASE call.fn = "make_summary" ->
                              make_summary(call.text, call.n, call.ocr_quality)
                         [] call.fn = "make_summary_law" -> make_summary_law(call.text, call.n)
                         [] OTHER -> make_summary_manual(call.text, call.n)]
  /\ UNCHANGED << runVars, guiVars, call >>

NextSummary == Summarize

SpecSummary == InitSummary /\ [][NextSummary]_vars

\* extract_pdf(path, use_ocr) on a PDF of one page
PdfFiles ==
  { MkFile(".pdf", "", 50000, 1, readable, corrupt, native, ocr) :
      readable \in BOOLEAN, corrupt \in BOOLEAN,
      native \in {EmptyBody, TinyBody, ShortBody, NoticeBody},
      ocr \in {EmptyBody, GoodOcrBody, GarbageOcrBody} }
PdfCalls == [fn : {"extract_pdf"}, file : PdfFiles, use_ocr : BOOLEAN, env : Envs]

InitPdf == NoRun /\ call \in PdfCalls /\ ret = NotReturned

ExtractPdf ==
  /\ call.fn = "extract_pdf"
  /\ ~ret.done
  /\ ret' = [done |-> TRUE,
             value |-> extract_pdf(call.file, call.use_ocr, call.env),
             ocr_calls |-> ocr_attempts(call.file, call.use_ocr, call.env)]
  /\ UNCHANGED << runVars, guiVars, call >>

NextPdf == ExtractPdf

SpecPdf == InitPdf /\ [][NextPdf]_vars

\* the window on its own: the user acts on it, worker threads run process_folder
InitGui == NoRun /\ call = NoCall /\ ret = NotReturned

Ungrabbed == gui.dialogs = <<>>

\* the folder buttons
Pick ==
  /\ Ungrabbed
  /\ \E b \in {"in_btn", "out_btn"}, p \in BOOLEAN :
       /\ gui.state[b] = "normal"
       /\ gui' = IF b = "in_btn" THEN pick_input(gui, p) ELSE pick_output(gui, p)
  /\ UNCHANGED << runVars, callVars >>

\* the user types into, or empties, a folder entry (the entries are set_busy's too)
EditEntry ==
  /\ Ungrabbed
  /\ gui.state["in_btn"] = "normal"
  /\ \E entry \in {"input_dir", "output_dir"}, filled \in BOOLEAN :
       gui' = [gui EXCEPT ![entry] = filled]
  /\ UNCHANGED << runVars, callVars >>

\* the OCR checkbox
ToggleOcr ==
  /\ Ungrabbed
  /\ gui.state["chk_ocr"] = "normal"
  /\ gui' = [gui EXCEPT !.use_ocr = ~@]
  /\ UNCHANGED << runVars, callVars >>

\* a button that is not disabled calls its command
Click ==
  /\ Ungrabbed
  /\ \E b \in {"run_btn", "ocr_retry_btn"}, isdir \in BOOLEAN :
       /\ gui.state[b] = "normal"
       /\ gui' = IF b = "run_btn" THEN start(gui, isdir) ELSE retry_with_ocr(gui)
  /\ UNCHANGED << runVars, callVars >>

\* the user answers the question on top
Answer ==
  /\ ~Ungrabbed
  /\ Top(gui) \in {"askyesno_start", "askyesno_retry"}
  /\ Len(gui.workers) < MaxWorkers
  /\ \E ans \in BOOLEAN, makedirs_ok \in BOOLEAN :
       gui' = Answered(gui, ans, makedirs_ok)
  /\ UNCHANGED << runVars, callVars >>

\* the user closes the message on top
CloseDialog ==
  /\ ~Ungrabbed
  /\ Top(gui) \in {"showwarning", "showinfo", "showerror"}
  /\ gui' = Closed(gui)
  /\ UNCHANGED << runVars, callVars >>

\* process_folder ends in a worker thread, which queues its call of _done and ends
WorkerEnds ==
  /\ \E w \in 1..Len(gui.workers), outcome \in Outcomes(MaxFiles) :
       gui' = [gui EXCEPT
                 !.workers = SubSeq(@, 1, w - 1) \o SubSeq(@, w + 1, Len(@)),
                 !.events = Append(@, worker(outcome))]
  /\ UNCHANGED << runVars, callVars >>

\* the event loop (also the one of a dialog) runs the oldest queued callback
HandleEvent ==
  /\ gui.events # <<>>
  /\ gui' = [done(gui, Head(gui.events)) EXCEPT !.events = Tail(gui.events)]
  /\ UNCHANGED << runVars, callVars >>

NextGui ==
  \/ Pick
  \/ EditEntry
  \/ ToggleOcr
  \/ Click
  \/ Answer
  \/ CloseDialog
  \/ WorkerEnds
  \/ HandleEvent

SpecGui == InitGui /\ [][NextGui]_vars

\* process_folder ends (its loop is over a finite list) and the event loop runs
SpecGuiLive == SpecGui /\ WF_vars(WorkerEnds) /\ WF_vars(HandleEvent)

\* ------------------------------------------------------------- properties
RecIdx == 1..Len(records)
RecsOf(k) == { a \in RecIdx : records[a].relpath = k }
Done == 1..i                                  \* the files the loop is through with
InHand == IF pc \in {"hash", "extract"} THEN {i + 1} ELSE {}
Running == pc \in {"check", "hash", "extract", "post"}
Returned == pc = "idle" /\ result.returned
Cancelled == pc \in {"post", "idle"} /\ i < Len(targets) /\ polls[i + 1] = 1
Complete == Returned /\ i = Len(targets)
HashOf(k) == compute_sha1(File(k))
SameBytes(k, l) == File(k).content = File(l).content
TextOf(k) == convert_japanese_year(Extract(File(k), use_ocr, env).text)

\* C1 as stated: within one run no two records share a content hash; of
\* the files with byte-identical content exactly one gets a record, every
\* other one is counted in skipped_dup and gets none, and the returned total
\* counts the set once.
C1_OneRecordPerContent ==
  /\ \A a, b \in RecIdx : a # b => records[a].sha1 # records[b].sha1
  /\ \A k, l \in Done : k < l /\ SameBytes(k, l) => l \in dups /\ RecsOf(l) = {}
  /\ skipped_dup = Cardinality(dups)
  /\ Returned => result.total = Cardinality({ File(k).content : k \in Done })

\* C1 amended: the same, for the files whose hash could be computed (a file
\* that cannot be opened has the hash "" and is never taken for a duplicate).
C1_OneRecordPerHash ==
  /\ \A a, b \in RecIdx :
       a # b /\ records[a].sha1 # 0 => records[a].sha1 # records[b].sha1
  /\ \A k, l \in Done :
       k < l /\ HashOf(k) # 0 /\ HashOf(k) = HashOf(l) => l \in dups /\ RecsOf(l) = {}
  /\ \A l \in dups : \E k \in 1..(l - 1) : HashOf(k) # 0 /\ HashOf(k) = HashOf(l)
  /\ \A k \in Done : HashOf(k) # 0 =>
       Cardinality({ a \in RecIdx : records[a].sha1 = HashOf(k) }) = 1
  /\ skipped_dup = Cardinality(dups)
  /\ Returned => result.total =
       Cardinality({ HashOf(k) : k \in { d \in Done : HashOf(d) # 0 } })
       + Cardinality({ k \in Done : HashOf(k) = 0 })

\* a run has returned in which a file was dropped as a duplicate
C1_Witness == Returned /\ dups # {} /\ records # <<>>

\* C2: the manifest file a run writes never holds an entry of a record
\* whose needs_review is true.
C2_NoReviewInCache ==
  manifest_file.state = "ok" =>
    \A h \in DOMAIN manifest_file.entries :
      ~manifest_file.entries[h].rec.needs_review

\* a run with a flagged and a clean record has written the manifest
C2_Witness ==
  /\ Returned /\ intact
  /\ \E a \in RecIdx : records[a].needs_review /\ records[a].sha1 # 0
  /\ DOMAIN manifest_file.entries # {}

PrevIdx == 1..Len(prevRecords)
FreshOf(k) == FreshRecord(k, File(k), HashOf(k), use_ocr, env)
IsFresh(k) ==
  /\ k \notin hits /\ k \notin dups
  /\ extracted[k] = 1
  /\ Cardinality(RecsOf(k)) = 1
  /\ \A a \in RecsOf(k) : records[a] = FreshOf(k)

\* C3: a file whose record was flagged needs_review in the previous run is
\* not served from the cache in this run on the same input: it is extracted
\* again and its record is computed afresh.
C3_FlaggedRecomputed ==
  \A p \in PrevIdx :
    prevRecords[p].needs_review /\ prevRecords[p].relpath \in Done
      => IsFresh(prevRecords[p].relpath)

\* this run is through with a file that the previous run flagged
C3_Witness ==
  \E p \in PrevIdx :
    /\ prevRecords[p].needs_review /\ prevRecords[p].sha1 # 0
    /\ prevRecords[p].relpath \in Done
    /\ extracted[prevRecords[p].relpath] = 1

\* C4: a second run on unchanged input, with the cache as the first run
\* wrote it and the same cache version, gives for every file whose record
\* was clean in the first run a record equal to it field for field, and the
\* records of these files come out in the same order.
PosOf(recs, rel) == CHOOSE a \in 1..Len(recs) : recs[a].relpath = rel
CleanBefore == { p \in PrevIdx : ~prevRecords[p].needs_review /\ prevRecords[p].relpath \in Done }
C4_Idempotent ==
  loadedIntact =>
    /\ \A p \in CleanBefore :
         /\ Cardinality(RecsOf(prevRecords[p].relpath)) = 1
         /\ \A a \in RecsOf(prevRecords[p].relpath) : records[a] = prevRecords[p]
    /\ Returned =>
         \A p, q \in CleanBefore :
           p < q => PosOf(records, prevRecords[p].relpath)
                      < PosOf(records, prevRecords[q].relpath)

\* a second run has returned two records of the cache, one of them of an
\* OCR text, with another use_ocr than the text was read with
C4_Witness ==
  /\ Returned /\ loadedIntact
  /\ Cardinality(hits) >= 2
  /\ \E a \in RecIdx :
       /\ records[a].relpath \in hits
       /\ records[a].ocr_quality < 100
       /\ records[a] # FreshOf(records[a].relpath)

\* C5: when the version marker of the manifest file differs from the
\* program's cache version, the run loads nothing: no file is a cache hit
\* and every file that is no duplicate is extracted, the cached ones too.
VersionMismatch ==
  Running /\ manifest_file.state = "ok" /\ manifest_file.version # cache_version
C5_VersionMismatchDiscards ==
  VersionMismatch =>
    /\ manifest = NoEntries
    /\ hits = {} /\ skipped_cache = 0
    /\ \A k \in Done : k \in dups \/ IsFresh(k)

\* a file with a cached clean record was extracted again after the upgrade
C5_Witness ==
  /\ VersionMismatch
  /\ \E k \in Done :
       /\ HashOf(k) \in DOMAIN manifest_file.entries
       /\ manifest_file.entries[HashOf(k)].ok
       /\ extracted[k] = 1

\* C6 as stated: every freshly computed record whose method tag reports a
\* failed extraction is flagged needs_review with a reason.
FailureTags ==
  {"error", "unhandled", "pymupdf_missing", "docx_missing", "excel_lib_missing",
   "xdw_text_extractor_missing", "pdf_err", "docx_err", "excel_err", "txt_err",
   "csv_err", "xdw_empty_or_protected"}
C6_FailuresFlagged ==
  \A a \in RecIdx :
    records[a].relpath \notin hits /\ records[a].method \in FailureTags
      => records[a].needs_review /\ records[a].reason # ""

\* C7: an unparsable manifest file loads as the empty cache, so that every
\* file is processed afresh; an entry that Record rejects leaves its file to
\* the normal extraction and adds no record of the cache; the run goes on.
MalformedFor(k) ==
  HashOf(k) # 0 /\ HashOf(k) \in DOMAIN manifest /\ ~manifest[HashOf(k)].ok
C7_BrokenCacheNonFatal ==
  /\ Running /\ manifest_file.state = "corrupt" =>
       /\ manifest = NoEntries /\ hits = {}
       /\ \A k \in Done : k \in dups \/ IsFresh(k)
  /\ \A k \in Done : MalformedFor(k) => k \in dups \/ IsFresh(k)
  /\ \A k \in InHand : MalformedFor(k) /\ pc = "extract" => RecsOf(k) = {}

\* a complete run has extracted a file whose entry was damaged
C7_Witness ==
  Complete /\ \E k \in Done : MalformedFor(k) /\ extracted[k] = 1

\* a complete run has started from an unparsable manifest file
C7_WitnessCorrupt ==
  /\ pc = "post" /\ i = Len(targets) /\ manifest_file.state = "corrupt"
  /\ \E k \in Done : extracted[k] = 1

\* C8: the flag is read once per file, before the file is hashed; once it
\* is read as set, that file and the later ones are neither hashed nor
\* extracted nor recorded; a file in hand when the flag is set is finished.
Files == 1..Len(targets)
C8_CooperativeCancel ==
  /\ \A k \in Files : polls[k] <= 1 /\ hashed[k] <= polls[k] /\ extracted[k] <= hashed[k]
  /\ \A k \in Files :
       polls[k] = 1 <=> (k \in Done \/ k \in InHand \/ (Cancelled /\ k = i + 1))
  /\ stop_event /\ pc \in {"hash", "extract"} => stopInFlight
  /\ Cancelled =>
       \A k \in (i + 1)..Len(targets) :
         hashed[k] = 0 /\ extracted[k] = 0 /\ RecsOf(k) = {}
  /\ \A k \in Done :
       hashed[k] = 1 /\ (k \in dups \/ Cardinality(RecsOf(k)) = 1)
  /\ Len(records) = Cardinality(Done \ dups)

\* a run was cancelled by a flag set while a file was being extracted, and
\* has returned with the record of that file
C8_Witness ==
  /\ Returned /\ Cancelled /\ stopInFlight
  /\ i >= 1 /\ extracted[i] = 1 /\ RecsOf(i) # {}

\* C9: a cancelled run returns as a complete one does: the records so far
\* are sorted, bundled and written to the manifest, and the counts of these
\* records are returned.
TypeRank(r) == CHOOSE t \in 1..3 : DocTypes[t] = r.doc_type
IsSorted(recs) ==
  \A a \in 1..(Len(recs) - 1) :
    \/ TypeRank(recs[a]) < TypeRank(recs[a + 1])
    \/ /\ TypeRank(recs[a]) = TypeRank(recs[a + 1])
       /\ ~StrLess(recs[a].date_sort_key, recs[a + 1].date_sort_key)
BundlePlaces(rel) ==
  { <<t, b, n>> \in (1..3) \X (1..Len(records)) \X (1..Len(records)) :
      /\ t \in DOMAIN bundles /\ b \in DOMAIN bundles[t] /\ n \in DOMAIN bundles[t][b]
      /\ bundles[t][b][n] = rel }
C9_CancelledRunReturns ==
  Cancelled /\ pc = "idle" =>
    /\ result.returned
    /\ result.total = Len(records) /\ result.total = Cardinality(Done \ dups)
    /\ result.needs = Cardinality({ a \in RecIdx : records[a].needs_review })
    /\ IsSorted(records)
    /\ \A a \in RecIdx : Cardinality(BundlePlaces(records[a].relpath)) = 1
    /\ intact =>
         /\ manifest_file.state = "ok" /\ manifest_file.version = cache_version
         /\ \A a \in RecIdx :
              records[a].sha1 # 0 /\ ~records[a].needs_review
                => /\ records[a].sha1 \in DOMAIN manifest_file.entries
                   /\ manifest_file.entries[records[a].sha1].rec = records[a]
         /\ \A h \in DOMAIN manifest_file.entries :
              \E a \in RecIdx : records[a].sha1 = h

\* a run cancelled at its third file has returned two records, one clean
\* and one flagged
C9_Witness ==
  /\ Cancelled /\ pc = "idle" /\ intact
  /\ result.total = 2 /\ result.needs = 1
  /\ DOMAIN manifest_file.entries # {}

\* C10 as stated: a freshly computed record carries the outputs of the
\* metadata stage on its text; here its issuer is guess_issuer of the text.
C10_StagesApplied ==
  \A a \in RecIdx :
    records[a].relpath \notin hits
      => records[a].issuer_guess = guess_issuer(TextOf(records[a].relpath))

\* C17 as stated: in the order a run returns, within each document type
\* every record with a parsable date comes before every record whose date
\* could not be parsed (key "99999999").
Dated(r) == r.date_sort_key # NoDateKey
C17_UndatedLast ==
  Returned =>
    \A a, b \in RecIdx :
      /\ records[a].doc_type = records[b].doc_type
      /\ Dated(records[a]) /\ ~Dated(records[b])
      => a < b

\* C18: the date_sort_key of every record of the result list, computed or
\* taken from the cache, is a string of exactly 8 digits, and a record
\* without a date that the key pattern parses has the key "99999999".
IsDigits8(key) == Len(key) = 8 /\ \A n \in 1..Len(key) : key[n] \in 0..9
C18_EightDigitKey ==
  \A a \in RecIdx :
    /\ IsDigits8(records[a].date_sort_key)
    /\ records[a].date_guess.kind # "greg" => records[a].date_sort_key = NoDateKey

\* a run has returned a record of the cache with a one-digit month and day
\* in its date, and a computed record without a date
C18_Witness ==
  /\ Returned
  /\ \E a \in RecIdx :
       /\ records[a].relpath \in hits
       /\ records[a].date_guess.kind = "greg"
       /\ (records[a].date_guess.ymd \div 100) % 100 < 10
       /\ records[a].date_guess.ymd % 100 < 10
  /\ \E b \in RecIdx :
       /\ records[b].relpath \notin hits
       /\ records[b].date_guess.kind = ""
       /\ records[b].date_sort_key = NoDateKey

\* C19: every record whose OCR quality score is below 0.35 is flagged
\* needs_review, and every record whose method tag does not contain "ocr"
\* has the score 1.0 (scores are written in hundredths).
C19_OcrReviewPolicy ==
  \A a \in RecIdx :
    /\ records[a].ocr_quality < OcrReviewBelow => records[a].needs_review
    /\ ~ContainsOcr(records[a].method) => records[a].ocr_quality = 100

\* a computed record of an OCR text that is long enough for its file size
\* is flagged for its score alone, next to a record of another method
C19_Witness ==
  /\ \E a \in RecIdx :
       /\ records[a].relpath \notin hits
       /\ ContainsOcr(records[a].method)
       /\ records[a].ocr_quality < OcrReviewBelow
       /\ records[a].reason = "low_ocr_quality"
  /\ \E b \in RecIdx :
       ~ContainsOcr(records[b].method) /\ ~records[b].needs_review

\* ------------------------------------------ properties of the single calls
RECURSIVE SumBytes(_)
SumBytes(rels) ==
  IF rels = <<>> THEN 0
  ELSE BlockBytes(call.records[Head(rels)]) + SumBytes(Tail(rels))

RECURSIVE Flat(_)
Flat(files) == IF files = <<>> THEN <<>> ELSE Head(files) \o Flat(Tail(files))

Bundled == call.fn = "write_binded_texts" /\ ret.done

\* C11 as stated: while the records of one type are appended, a new bundle
\* file is started exactly when the buffer is not empty and its bytes plus
\* the next block exceed the limit: a file after the first starts with a
\* block that did not fit into the file before it, and every later block of
\* a file fitted with the blocks before it.
C11_FirstFitWithFlush ==
  Bundled =>
    \A t \in 1..3 :
      \A k \in 1..Len(ret.value[t]) :
        LET files == ret.value[t] IN
        /\ k > 1 =>
             SumBytes(files[k - 1]) + SumBytes(<<files[k][1]>>) > call.limit_bytes
        /\ \A n \in 2..Len(files[k]) :
             SumBytes(SubSeq(files[k], 1, n)) <= call.limit_bytes

\* C12: every record with a non-blank payload is in exactly one bundle file
\* of its type (of the notices, if its type is none of the three), the
\* blocks of a type keep the order of the records, what is left in the
\* buffer at the end of a type is written, and no bundle file is empty.
WantedIn(t) ==
  SelectSeq(call.records,
            LAMBDA r : /\ r.full_text_for_bind # BlankPayload
                       /\ \/ r.doc_type = DocTypes[t]
                          \/ t = 2 /\ r.doc_type \notin {"Law", "Notice", "Manual"})
C12_NothingLostOrDuplicated ==
  Bundled =>
    \A t \in 1..3 :
      /\ Len(Flat(ret.value[t])) = Len(WantedIn(t))
      /\ \A n \in 1..Len(WantedIn(t)) : Flat(ret.value[t])[n] = WantedIn(t)[n].relpath
      /\ \A k \in 1..Len(ret.value[t]) : ret.value[t][k] # <<>>

\* the records of one type went into two bundle files, a blank record into
\* none, and a record of a fourth type went with the notices
C12_Witness ==
  /\ Bundled
  /\ \E t \in 1..3 : Len(ret.value[t]) = 2
  /\ \E n \in 1..Len(call.records) : call.records[n].full_text_for_bind = BlankPayload
  /\ Len(call.records) = MaxBundleRecs

Batched == call.fn = "copy_source_files_batched" /\ ret.done
BatchIdx == 1..Len(ret.value.batches)
RECURSIVE SumSizes(_)
SumSizes(files) == IF files = <<>> THEN 0 ELSE Head(files).size + SumSizes(Tail(files))
InBatches(rel) ==
  \E b \in BatchIdx : \E n \in 1..Len(ret.value.batches[b]) :
    ret.value.batches[b][n].relpath = rel
InSkipped(rel) ==
  \E n \in 1..Len(ret.value.skipped) :
    ret.value.skipped[n].relpath = rel /\ ret.value.skipped[n].reason # ""
Slots == pdf_slots(call.n_bundle_files)

\* C13: the sizes of the files of a batch never add up to more than
\* 250 MB: a file that would take the open batch above it starts a new one.
C13_BatchByteLimit ==
  Batched =>
    \A b \in BatchIdx :
      /\ ret.value.batches[b] # <<>>
      /\ SumSizes(ret.value.batches[b]) <= MAX_BATCH_BYTES

\* a batch was closed with slots to spare because the next file would have
\* taken it above 250 MB
C13_Witness ==
  /\ Batched
  /\ \E b \in BatchIdx :
       /\ b + 1 \in BatchIdx
       /\ Len(ret.value.batches[b]) < Slots
       /\ SumSizes(ret.value.batches[b]) + ret.value.batches[b + 1][1].size
            > MAX_BATCH_BYTES

\* C14 as stated: no batch has more files than the slot limit, which is 50
\* less the preamble file and the bundle files, and at least 0.
C14_SlotLimit ==
  Batched => \A b \in BatchIdx : Len(ret.value.batches[b]) <= Slots

\* C15: every PDF original above 50 MB is in the skipped list with a reason
\* and in no batch, every file of a batch has at most 50 MB, and no file is
\* both skipped and in a batch.
C15_PerFileLimit ==
  Batched =>
    /\ \A n \in 1..Len(call.records) :
         LET r == call.records[n] IN
         r.ext = ".pdf" /\ OrigDisk[r.relpath].isfile
           /\ OrigDisk[r.relpath].size > MAX_FILE_BYTES
           => InSkipped(r.relpath) /\ ~InBatches(r.relpath)
    /\ \A b \in BatchIdx : \A n \in 1..Len(ret.value.batches[b]) :
         /\ ret.value.batches[b][n].size <= MAX_FILE_BYTES
         /\ ret.value.batches[b][n].size = OrigDisk[ret.value.batches[b][n].relpath].size
    /\ \A n \in 1..Len(call.records) :
         ~(InSkipped(call.records[n].relpath) /\ InBatches(call.records[n].relpath))

\* a file above 50 MB was skipped next to a batch with a file of 50 MB
C15_Witness ==
  /\ Batched
  /\ \E n \in 1..Len(ret.value.skipped) :
       OrigDisk[ret.value.skipped[n].relpath].size = MAX_FILE_BYTES + 1
  /\ \E b \in BatchIdx : \E n \in 1..Len(ret.value.batches[b]) :
       ret.value.batches[b][n].size = MAX_FILE_BYTES

\* C16: the names under which the originals are copied differ pairwise
\* over all batches of the call.
Places == { <<b, n>> \in BatchIdx \X (1..MaxOriginals + 1) : n <= Len(ret.value.batches[b]) }
NameAt(q) == ret.value.batches[q[1]][q[2]].name
C16_DistinctNames ==
  Batched => \A q1, q2 \in Places : q1 # q2 => NameAt(q1) # NameAt(q2)

\* two files with the same flattened name were copied into different
\* batches, the second under a name with a suffix, which a third file, named
\* like that, had to avoid in turn
C16_Witness ==
  /\ Batched
  /\ \E q1, q2, q3 \in Places :
       /\ q1[1] < q2[1]
       /\ OrigDisk[ret.value.batches[q1[1]][q1[2]].relpath].flat
            = OrigDisk[ret.value.batches[q2[1]][q2[2]].relpath].flat
       /\ NameAt(q2) = Append(NameAt(q1), 1)
       /\ OrigDisk[ret.value.batches[q3[1]][q3[2]].relpath].flat = NameAt(q2)
       /\ NameAt(q3) = Append(NameAt(q2), 1)

Classified == call.fn = "_detect_doc_type" /\ ret.done

\* C20: the type is one of Law, Notice, Manual, by the first rule that
\* matches: law vocabulary in a folder of the path gives Law; else manual
\* vocabulary in a folder gives Manual; else 5 article markers or more and
\* no notify phrase give Law; else Notice.  The file name is no folder.
FolderIdx == 1..(Len(call.rel_path) - 1)
LawFolder == \E n \in FolderIdx : call.rel_path[n] \in {"law", "law_manual"}
ManualFolder == \E n \in FolderIdx : call.rel_path[n] \in {"manual", "law_manual"}
LawText == call.text.articles >= 5 /\ ~call.text.notify
C20_FirstMatchWins ==
  Classified =>
    /\ ret.value \in {"Law", "Notice", "Manual"}
    /\ LawFolder => ret.value = "Law"
    /\ ~LawFolder /\ ManualFolder => ret.value = "Manual"
    /\ ~LawFolder /\ ~ManualFolder /\ LawText => ret.value = "Law"
    /\ ~LawFolder /\ ~ManualFolder /\ ~LawText => ret.value = "Notice"

\* a file with law vocabulary in its name and a law text, in a folder with
\* manual vocabulary only, is a Manual
C20_Witness ==
  /\ Classified
  /\ call.rel_path = <<"manual", "law">>
  /\ call.text.articles = 6 /\ ~call.text.notify
  /\ ret.value = "Manual"

\* ---------------------------------------------------------------- C21
TitleGuessed == call.fn \in TitleGuessers /\ ret.done

\* C21 as stated: no value returned by guess_title, guess_title_law or
\* guess_title_manual, for any text and any fallback, satisfies
\* _is_ocr_garbled_title.
C21_NeverGarbled ==
  TitleGuessed => ~is_ocr_garbled_title(ret.value)

\* what the code does guarantee, and for guess_title only: every value that
\* is not the fallback has passed the rejection predicate
C21_GuessTitleChecksLines ==
  (TitleGuessed /\ call.fn = "guess_title" /\ ret.value # call.fallback)
    => ~is_ocr_garbled_title(ret.value)

\* guess_title joins two lines and three lines into one title
C21_JoinedTitle ==
  /\ TitleGuessed /\ call.fn = "guess_title"
  /\ ret.value.len > 20

\* ---------------------------------------------------------------- C22
Summarized == call.fn \in Summarizers /\ ret.done
Suppressed ==
  call.fn = "make_summary" /\ ~call.text.blank /\ call.ocr_quality < OcrSummaryBelow

\* C22 as stated: for every text, every budget n >= 0 and every OCR quality
\* the summary returned by make_summary, make_summary_law and
\* make_summary_manual has at most n + 1 characters, the placeholder for a
\* low OCR quality included.
C22_WithinBudget ==
  Summarized => ret.value <= call.n + 1

\* C22, amended: a summary that make_summary, make_summary_law or
\* make_summary_manual composes has at most n + 1 characters; for a text
\* that is not blank and an OCR quality below 0.25 make_summary returns the
\* placeholder, of 41 characters whatever the budget is.
C22_ComposedWithinBudget ==
  Summarized =>
    IF Suppressed THEN ret.value = PlaceholderLen ELSE ret.value <= call.n + 1

\* a summary was cut to the budget and got the truncation marker; the
\* placeholder was returned under a budget it exceeds
C22_Witness ==
  /\ Summarized /\ ~Suppressed
  /\ call.n > 0
  /\ ret.value = call.n + 1

C22_WitnessPlaceholder ==
  /\ Summarized /\ Suppressed
  /\ ret.value > call.n + 1

\* ---------------------------------------------------------------- C23
PdfExtracted == call.fn = "extract_pdf" /\ ret.done
PageOpened == call.env.fitz /\ call.file.readable /\ ~call.file.corrupt

\* C23 as stated: for a PDF page whose embedded text is shorter than the OCR
\* trigger threshold, with OCR enabled and the OCR engine available, OCR is
\* invoked exactly once for the page and the recognized text is merged into
\* the page's text: the resulting text contains both the embedded text and
\* the OCR text.
C23_OcrMerged ==
  (/\ PdfExtracted /\ PageOpened
   /\ call.use_ocr /\ call.env.tesseract
   /\ TextLen(call.file.native) < OcrTriggerManual)
    => /\ ret.ocr_calls = 1
       /\ ret.value.text = Concat(call.file.native, call.file.ocr)

\* ---------------------------------------------------------------- C24
\* what line 2735 and line 2742 decide for file k, from the input and the
\* manifest the run loaded
EarlierCopy(k) == \E l \in 1..(k - 1) : HashOf(l) # 0 /\ HashOf(l) = HashOf(k)
Cached(k) ==
  HashOf(k) # 0 /\ HashOf(k) \in DOMAIN manifest /\ manifest[HashOf(k)].ok

\* C24: in one run the extractor is invoked exactly once for each visited
\* file that is neither a duplicate nor a cache hit, also when that attempt
\* fails, and not at all for a duplicate and for a cache hit.
C24_NoRetries ==
  \A k \in Files :
    /\ extracted[k] <= 1
    /\ k \in Done =>
         extracted[k] = (IF EarlierCopy(k) \/ Cached(k) THEN 0 ELSE 1)
    /\ k \notin Done => extracted[k] = 0

\* a run has returned with a cache hit, a duplicate and a file whose one
\* extraction failed
C24_Witness ==
  /\ Returned
  /\ \E k \in Done : Cached(k) /\ ~EarlierCopy(k) /\ extracted[k] = 0
  /\ \E k \in Done : EarlierCopy(k) /\ extracted[k] = 0
  /\ \E a \in RecIdx :
       /\ records[a].method \in FailureTags
       /\ extracted[records[a].relpath] = 1

\* ---------------------------------------------------------------- C25
ExtractedText(k) == Extract(File(k), use_ocr, env).text
KeyOf(ymd) == Year4(ymd \div 10000) \o Pad2((ymd \div 100) % 100) \o Pad2(ymd % 100)

\* C25 as stated: for a file whose extracted text has an era date and no
\* western date, the record that process_folder computes has a date string
\* that is not empty and the date_sort_key YYYYMMDD of that date, not
\* "99999999".
C25_EraDateKeyed ==
  \A a \in RecIdx :
    records[a].relpath \notin hits /\ ExtractedText(records[a].relpath).date = "era"
      => /\ records[a].date_guess.kind # ""
         /\ records[a].date_sort_key = KeyOf(ExtractedText(records[a].relpath).ymd)
         /\ records[a].date_sort_key # NoDateKey

\* ---------------------------------------------------------------- C27
CbIdx == 1..Len(callbacks)
IssuedFor(k, status) ==
  \E n \in CbIdx : callbacks[n].current = k /\ callbacks[n].status = status

\* C27: every progress callback carries the 1-based index of the file in
\* hand, between 1 and total; the index never decreases during a run; the
\* pre-hash callback of a visited file is issued before the file is hashed;
\* the pre-extraction callback is issued only for a file that is neither a
\* duplicate nor a cache hit, before its extraction starts.
C27_ProgressOrder ==
  /\ \A n \in CbIdx :
       /\ callbacks[n].total = Len(targets)
       /\ 1 <= callbacks[n].current /\ callbacks[n].current <= callbacks[n].total
       /\ callbacks[n].current \in Done \cup InHand
  /\ \A k \in InHand : callbacks[Len(callbacks)].current = k
  /\ \A n, m \in CbIdx : n < m => callbacks[n].current <= callbacks[m].current
  /\ \A n \in CbIdx :
       callbacks[n].status # "checking" =>
         \E m \in 1..(n - 1) :
           callbacks[m].current = callbacks[n].current /\ callbacks[m].status = "checking"
  /\ \A k \in Files :
       /\ (hashed[k] = 1 \/ (pc = "hash" /\ k = i + 1)) => IssuedFor(k, "checking")
       /\ (extracted[k] = 1 \/ (pc = "extract" /\ k = i + 1)) => IssuedFor(k, "extracting")
       /\ IssuedFor(k, "extracting") => ~EarlierCopy(k) /\ ~Cached(k)
       /\ IssuedFor(k, "ocr") => IssuedFor(k, "extracting")

\* a run has returned after it reported a cache hit, a duplicate and the
\* extraction of a PDF with OCR
C27_Witness ==
  /\ Returned
  /\ \E k \in Done : IssuedFor(k, "cache")
  /\ \E k \in Done : IssuedFor(k, "duplicate")
  /\ \E k \in Done : IssuedFor(k, "ocr") /\ extracted[k] = 1

\* ---------------------------------------------------------------- C28
CachedNow == DOMAIN manifest_file.entries
ToCache == { a \in RecIdx : records[a].sha1 # 0 /\ ~records[a].needs_review }

\* C28: after a run, complete or cancelled, the manifest file holds the
\* current version marker and exactly one entry per record of the run that
\* has a hash and is not needs_review; the entries of the loaded cache for
\* files the run did not visit are dropped; a file whose hash could not be
\* computed is never cached.
C28_CacheIsThisRun ==
  Returned /\ intact =>
    /\ manifest_file.state = "ok" /\ manifest_file.version = cache_version
    /\ CachedNow = { records[a].sha1 : a \in ToCache }
    /\ Cardinality(CachedNow) = Cardinality(ToCache)
    /\ \A a \in ToCache :
         /\ manifest_file.entries[records[a].sha1].ok
         /\ manifest_file.entries[records[a].sha1].rec = records[a]
    /\ \A h \in DOMAIN manifest :
         (\A k \in Done : HashOf(k) # h) => h \notin CachedNow
    /\ 0 \notin CachedNow

\* a cancelled run has returned the record of a file without a hash and has
\* dropped the entry of a file that it did not reach
C28_Witness ==
  /\ Returned /\ intact /\ Cancelled
  /\ \E a \in RecIdx : records[a].sha1 = 0 /\ ~records[a].needs_review
  /\ \E h \in DOMAIN manifest : manifest[h].ok /\ h \notin CachedNow
  /\ CachedNow # {}

\* ---------------------------------------------------------------- C29
\* C29: for every record that this run computed (not taken from the cache),
\* needs_review is true if and only if its reason is not empty.
C29_ReasonIffReview ==
  \A a \in RecIdx :
    records[a].relpath \notin hits
      => (records[a].needs_review <=> records[a].reason # "")

\* a run has computed a flagged record and a clean one
C29_Witness ==
  /\ Returned
  /\ \E a \in RecIdx :
       records[a].relpath \notin hits /\ records[a].needs_review /\ records[a].reason # ""
  /\ \E b \in RecIdx :
       records[b].relpath \notin hits /\ ~records[b].needs_review /\ records[b].reason = ""

\* ---------------------------------------------------------------- C26
RunActive == gui.workers # <<>> \/ gui.events # <<>>

\* C26: a call of process_folder that returns normally leads to a call of _done
\* with is_error = False and the total and needs-review counts it returned
DoneAsReturned(d) ==
  d.of.kind = "return" =>
    /\ ~d.is_error
    /\ d.total = d.of.value[1]
    /\ d.needs = d.of.value[2]

C26_DoneAsReturned ==
  /\ \A k \in 1..Len(gui.events) : DoneAsReturned(gui.events[k])
  /\ DoneAsReturned(gui.last_done)

\* ---------------------------------------------------------------- C30
C30_Exclusive ==
  /\ Len(gui.workers) + Len(gui.events) <= 1
  /\ RunActive =>
       /\ gui.busy
       /\ gui.state["run_btn"] = "disabled"
       /\ gui.state["ocr_retry_btn"] = "disabled"

\* C30: at most one worker thread runs process_folder; from the start of a run
\* to its _done the busy flag is set and the start and OCR-retry buttons are
\* disabled; every run that was started ends with _done clearing the flag
C30_OneRunAtATime ==
  /\ []C30_Exclusive
  /\ (gui.busy ~> ~gui.busy)

\* a second run is in progress, after the first one was closed by _done
C30_Witness ==
  /\ gui.workers # <<>>
  /\ gui.busy
  /\ gui.last_done # NoDone

====
